---------------------------- MODULE Spec2Model ----------------------------
(***************************************************************************)
(* Model of the comic library of OnlineComicReader: the ingestion          *)
(* orchestrator (handleFile), the bulk upload service, the storage manager *)
(* and the reader's progress / page-cache path.                            *)
(*                                                                         *)
(* The storage manager under src/ has no content-addressed API: saveFile,  *)
(* findDuplicate, getFile and getComicMetadata are called by handleFile    *)
(* and the pages but are not defined in the sources.  They, the Hasher and *)
(* the Blob Store (put / release) are modelled from the specification;     *)
(* every other definition is a translation of the source named for it.     *)
(* The Item store is the storage manager's record store ("comicFiles"):    *)
(* deleteComic, updateLastAccessed and updateProgress of the sources act   *)
(* on it by id.                                                            *)
(*                                                                         *)
(* The specifications share the variables:                                 *)
(*   Spec            handleFile, bulk upload, deletion, opening a comic;   *)
(*   SpecReader      the reader page over the library;                     *)
(*   SpecRecords     saveComic / getComic / updateProgress of the storage  *)
(*                   manager on its record store, keyed by generateId;     *)
(*   SpecMigrate     init and migrateLegacyRecords on that record store;   *)
(*   SpecMigrateLive SpecMigrate with the steps of a call being taken;     *)
(*   SpecUpdates     saveFilterSetting / updateProgress / deleteComic;     *)
(*   SpecBlob        the Blob Store under concurrent put and release;      *)
(*   SpecHome        the home page's list of recent comics;                *)
(*   SpecPages       the reader's page fetches and the page cache;         *)
(*   SpecListing     the listing of an archive by ArchiveManager and the   *)
(*                   workers;                                              *)
(*   SpecLoad        ArchiveManager.loadPage on the opened archive;        *)
(*   SpecSession     EnhancedZipManager and the ZIP worker;                *)
(*   SpecSessionLive SpecSession with the scheduling of the worker;        *)
(*   SpecWorker      ArchiveManager of zipManager.ts and the ZIP worker;   *)
(*   SpecWorkerLive  SpecWorker with the worker's event loop running;      *)
(*   SpecUpload      UploadService: bulk upload with cancel.               *)
(***************************************************************************)
EXTENDS Integers, Sequences, FiniteSets, TLC

(***************************************************************************)
(* Bounds of the model.                                                    *)
(***************************************************************************)
MaxItems == 2      \* ids the store hands out
MaxContent == 2    \* distinct byte contents of an upload: 0..MaxContent
MaxTasks == 1      \* handleFile calls in flight at once
MaxClock == 1      \* Date.now() values: 0..MaxClock
MaxIngest == 2     \* ingests per content that stored the file or reused an Item
MaxClients == 2    \* Blob Store operations in flight at once
MaxOps == 3        \* Blob Store operations issued in a run
MaxBase == 1       \* refCount a Blob record starts a run with: 0..MaxBase
MaxFetch == 2      \* onExtractPage calls in flight at once
MaxRecent == 1     \* comics the home page shows: recentComics.slice(0, MaxRecent)
MaxName == 3       \* characters of an archive entry's name
MaxEntries == 2    \* files of an archive
MaxExtract == 2    \* extractions of one page in a run
MaxBatches == 2    \* processFileList / processDrop calls in flight at once
MaxList == 2       \* files of a dropped or selected list
MaxCallers == 2    \* callers of the storage manager while the store opens
MaxMessages == 3   \* messages an ArchiveManager of zipManager.ts sends in a run
MaxPages == 2      \* image entries of a comic opened in EnhancedZipManager

(***************************************************************************)
(* Uploaded files.  A file is its name and its bytes; what an archive      *)
(* library makes of the bytes is a fixed table of the content:             *)
(*   0: not a container at all, 1: a container with no image entry,        *)
(*   c > 1: a container with c image entries.                              *)
(***************************************************************************)
Contents == 0..MaxContent
Names == {"a.cbz", "n.txt"}
Files == [name : Names, bytes : Contents]
NoFile == [name |-> "", bytes |-> 0]

LowerExt(name) ==
    CASE name = "a.cbz" -> "cbz"
      [] name = "n.txt" -> "txt"
      [] OTHER -> ""

isSupported(file) == LowerExt(file.name) \in {"cbz", "zip", "cbr", "rar"}

isComicFile(filename) == LowerExt(filename) \in {"cbz", "cbr", "zip", "rar"}

Openable(file) == file.bytes > 0
PageCount(file) == IF file.bytes > 1 THEN file.bytes ELSE 0

hash(bytes) == <<"sha256", bytes>>
Hashes == {hash(c) : c \in Contents}

ItemId(n) == "item" \o ToString(n)
ItemIds == {ItemId(n) : n \in 1..MaxItems}
LocalNames == {"a.cbz"}
LocalId(name) == "local-" \o name
Tasks == 1..MaxTasks
NoId == ""

Remove(f, k) == [x \in DOMAIN f \ {k} |-> f[x]]
Put(f, k, v) == [x \in DOMAIN f \cup {k} |-> IF x = k THEN v ELSE f[x]]

VARIABLES
    now,            \* Date.now()
    items,          \* Item store: id -> FileSystemItem (with the progress fields
                    \* updateLastAccessed writes)
    blobs,          \* Blob store: hash -> BlobRecord
    comicMetadata,  \* comicStorage's metadata store: id -> ComicBook
    dbComics,       \* IndexedDBStore's comics store: id -> ComicBook
    dbPages,        \* IndexedDBStore's pages store: <<comicId, pageIndex>> -> blob
    nextId,         \* ids handed out so far + 1
    task,           \* the handleFile calls in flight
    reader,         \* session stores: currentComic, currentFile, currentPageIndex
    created,        \* history: id -> hash of every Item ever persisted
    ingests,        \* history: ingests per content that stored or reused
    reuses,         \* history: ingests answered by the duplicate path, per content
    call,           \* the saveComic / getComic calls in flight
    pending,        \* the Blob Store operations in flight
    blobHist,       \* history of the Blob Store operations, per content
    fetch,          \* the onExtractPage calls in flight
    pageBlob,       \* comic.pages of the reader: the indices whose blob is loaded
    extractions,    \* history: archive extractions done, per page index
    recentComics,   \* the home page's list, as loadComics left it
    archive,        \* the files of the archive being listed, in stored order
    listing,        \* the entries as the listing path returned them
    pages,          \* the descriptors ArchiveManager.openArchive returned
    loading,        \* the ArchiveManager.loadPage calls in flight
    currentSession, \* EnhancedZipManager.currentSession
    pageCache,      \* EnhancedZipManager.pageCache: cache key -> ComicPage
    libarchive,     \* EnhancedZipManager: isLibarchiveLoaded, libarchiveInstance
    worker,         \* the ZIP worker: its archive and the messages posted to it
    pendingRequests,\* ArchiveManager.pendingRequests of zipManager.ts
    op,             \* the openComic / getPage / closeComic calls in flight
    db,             \* ComicStorageManager.db: the database is opened
    messageId,      \* ArchiveManager.messageId of zipManager.ts
    requests,       \* history: the promises sendMessage returned, in order
    upload          \* UploadService: isCancelled and the batches in flight

libVars == <<now, items, blobs, comicMetadata, dbComics, dbPages, nextId, task,
             reader, created, ingests, reuses>>
pageVars == <<fetch, pageBlob, extractions>>
listVars == <<recentComics, archive, listing>>
sessVars == <<currentSession, pageCache, libarchive, worker,
              pendingRequests, op>>
mgrVars == <<messageId, requests>>
arcVars == <<pages, loading, db, mgrVars, upload, sessVars>>
otherVars == <<now, items, blobs, comicMetadata, dbComics, dbPages, nextId,
               task, reader, created, ingests, reuses, call, pending, blobHist,
               fetch, pageBlob, extractions, recentComics, archive, listing,
               pages, loading, db, mgrVars, upload>>
auxVars == <<call, pending, blobHist, fetch, pageBlob, extractions,
             recentComics, archive, listing, pages, loading, currentSession,
             pageCache, libarchive, worker, pendingRequests, op, db,
             messageId, requests, upload>>
casVars == <<now, items, blobs, comicMetadata, dbComics, dbPages, nextId, task,
             reader, created, ingests, reuses, call, pending, blobHist, fetch,
             pageBlob, extractions, recentComics, archive, listing, pages,
             loading, currentSession, pageCache, libarchive, worker,
             pendingRequests, op, db, messageId, requests, upload>>

Undefined == -1
recordVersion == 2
Empty == [x \in {} |-> 0]

(***************************************************************************)
(* Records.                                                                *)
(***************************************************************************)
\* A ComicBook by its id and its progress fields.
ComicBook(id, cur, tot) ==
    [id |-> id, currentPage |-> cur, totalPages |-> tot]

Item(name, h, t, thumbnail) ==
    [name |-> name, contentHash |-> h, lastAccessed |-> t,
     currentPage |-> Undefined, totalPages |-> Undefined,
     version |-> recordVersion, thumbnail |-> thumbnail]

NoComic == ComicBook(NoId, 0, 0)

\* The messages handleFile hands to setError; NoError is the cleared store.
NoError == ""
UnsupportedFormat == "Please select a CBZ, ZIP, CBR, or RAR file."
ArchiveOpenFailure == "Failed to open archive"
EmptyArchive == "No images found in archive."
StorageFailure == "Failed to process file"

\* A handleFile call: where it is, its locals, and the error it reported last
\* (thumbnail: whether createThumbnail produced a preview).
IdleTask ==
    [pc |-> "idle", file |-> NoFile, existing |-> NoId, fsItem |-> NoId,
     comic |-> NoComic, thumbnail |-> FALSE, error |-> NoError]

Failed(message) == [IdleTask EXCEPT !.error = message]

NoReader == [open |-> FALSE, id |-> NoId, file |-> NoFile, currentPage |-> 0,
             totalPages |-> 0]

\* The record store of ComicStorageManager.saveComic: a file is its name and
\* its bytes, its size is the number of bytes.
RecNames == {"a.cbz", "b.cbz"}
RecBytes == {<<0>>, <<1>>}
RecFiles == [name : RecNames, bytes : RecBytes]
NoRecFile == [name |-> "", bytes |-> <<>>]

generateId(filename, fileSize) == filename \o "-" \o ToString(fileSize)

RecordIds == {generateId(f.name, Len(f.bytes)) : f \in RecFiles}

\* The filter of a record saveFilterSetting never wrote, and the filters the
\* reader offers.
NoFilter == ""
Filters == {"sepia"}

\* The record saveComic stores: currentPage defaults to 0, totalPages is the
\* option when it is a number and 0 otherwise.
ComicRecord(file, t, totalPages) ==
    [filename |-> file.name, fileBuffer |-> file.bytes,
     fileSize |-> Len(file.bytes), lastAccessed |-> t, currentPage |-> 0,
     totalPages |-> IF totalPages # Undefined THEN totalPages ELSE 0,
     version |-> recordVersion, filter |-> NoFilter]

\* The record an earlier version of saveComic stored: no progress fields and
\* no version.
LegacyRecord(file, t) ==
    [filename |-> file.name, fileBuffer |-> file.bytes,
     fileSize |-> Len(file.bytes), lastAccessed |-> t,
     currentPage |-> Undefined, totalPages |-> Undefined,
     version |-> Undefined, filter |-> NoFilter]

NoRecord == LegacyRecord(NoRecFile, 0)

IdleCall == [pc |-> "idle", op |-> "", id |-> NoId, file |-> NoRecFile,
             totalPages |-> Undefined, record |-> NoRecord]

\* The reader's page fetches: the blob loadPage extracts for a page of a file,
\* and the record savePageBlob stores.
Fetchers == 1..MaxFetch
PageIndexes == 0..(MaxContent - 1)
PageBlob(file, index) == <<file.bytes, index>>
PageEntry(blob, t) == [blob |-> blob, cachedAt |-> t]
IdleFetch == [pc |-> "idle", index |-> 0]

\* The home page's list before the first loadComics (loads tells one
\* assignment of the list from the next), and no listing made.
NoRecent == [files |-> <<>>, loads |-> 0]
NoListing == [path |-> "", entries |-> <<>>, worker |-> <<>>]

\* ArchiveManager.loadPage calls: none in flight; outcome is how the last
\* call of the caller ended.
IdleLoad == [pc |-> "idle", index |-> 0, outcome |-> ""]

\* EnhancedZipManager before a comic is opened: currentSession = null, an
\* empty pageCache, no worker created, no request pending, no call in flight.
NoSession == [open |-> FALSE]
NoComicFile == [name |-> "", images |-> 0]
NoLibarchive ==
    [isLibarchiveLoaded |-> FALSE, libarchiveInstance |-> NoComicFile]
NoWorker == [alive |-> FALSE, currentArchiveData |-> NoComicFile,
             currentEntries |-> NoComicFile, inbox |-> <<>>, running |-> {},
             outbox |-> <<>>]
NoOp == [pc |-> "idle", file |-> NoComicFile, index |-> 0, key |-> <<>>,
         pageInfo |-> <<>>, outcome |-> ""]

\* A batch of UploadService: where its call is, the comic files of its list,
\* the index of the loop, the progress reported last, and whether cancel()
\* was called since it started (history).
Batches == 1..MaxBatches
IdleBatch == [pc |-> "idle", files |-> <<>>, i |-> 0, current |-> 0,
              cancelled |-> FALSE]
NoUpload == [isCancelled |-> FALSE, batch |-> [b \in Batches |-> IdleBatch]]

\* No archive is open in ArchiveManager or in EnhancedZipManager, and no
\* upload is under way.
NothingOpen ==
    /\ pages = <<>>
    /\ loading = [c \in Fetchers |-> IdleLoad]
    /\ currentSession = NoSession
    /\ pageCache = Empty
    /\ libarchive = NoLibarchive
    /\ worker = NoWorker
    /\ pendingRequests = {}
    /\ op = [c \in Fetchers |-> NoOp]
    /\ messageId = 0
    /\ requests = <<>>
    /\ upload = NoUpload

Clients == 1..MaxClients
IdleOp == [kind |-> "idle", bytes |-> 0, seen |-> 0]
NoHist(n) == [base |-> n, puts |-> 0, releases |-> 0, conc |-> 0,
              raced |-> FALSE]

(***************************************************************************)
(* Blob Store (from the specification, 4.3): put inserts the record with   *)
(* refCount 1 or increments it, release decrements it and deletes the      *)
(* record at 0; each is one transaction.                                   *)
(***************************************************************************)
BlobPut(bl, bytes) ==
    LET h == hash(bytes) IN
    IF h \in DOMAIN bl
    THEN [bl EXCEPT ![h].refCount = @ + 1]
    ELSE Put(bl, h, [data |-> bytes, refCount |-> 1])

BlobRelease(bl, h) ==
    IF bl[h].refCount > 1
    THEN [bl EXCEPT ![h].refCount = @ - 1]
    ELSE Remove(bl, h)

BlobGet(bl, h) == IF h \in DOMAIN bl THEN {bl[h].data} ELSE {}

(***************************************************************************)
(* Storage manager.                                                        *)
(***************************************************************************)
\* From the specification (4.4 step 3): the Item with the upload's digest,
\* looked up through the contentHash index; NoId when there is none.
findDuplicate(file) ==
    LET S == {n \in 1..MaxItems :
                /\ ItemId(n) \in DOMAIN items
                /\ items[ItemId(n)].contentHash = hash(file.bytes)}
    IN IF S = {} THEN NoId
       ELSE ItemId(CHOOSE n \in S : \A m \in S : n <= m)

\* From the specification (4.4 steps 6-7): Blob put and Item persist, in one
\* transaction over both stores; the Item gets a fresh opaque id.
saveFile(file, thumbnail) ==
    LET id == ItemId(nextId) IN
    /\ nextId <= MaxItems
    /\ blobs' = BlobPut(blobs, file.bytes)
    /\ items' = Put(items, id,
                    Item(file.name, hash(file.bytes), now, thumbnail))
    /\ created' = Put(created, id, hash(file.bytes))
    /\ nextId' = nextId + 1

\* From the specification (6): the file of an Item, rebuilt from its Blob.
getFile(id) ==
    IF id \in DOMAIN items /\ items[id].contentHash \in DOMAIN blobs
    THEN {[name |-> items[id].name,
           bytes |-> blobs[items[id].contentHash].data]}
    ELSE {}

\* updateLastAccessed(id, data): one readwrite transaction; an id without a
\* record is left alone.
touch(record, cur, tot) ==
    [record EXCEPT !.lastAccessed = now,
                   !.currentPage = IF cur # Undefined THEN cur ELSE @,
                   !.totalPages = IF tot # Undefined THEN tot ELSE @,
                   !.version = recordVersion]

\* A faulty updateLastAccessed: a record is put also when the get found none.
updateLastAccessed_creates(its, id, cur, tot) ==
    Put(its, id, touch(IF id \in DOMAIN its THEN its[id] ELSE NoRecord, cur, tot))

updateLastAccessed(its, id, cur, tot) ==
    IF id \in DOMAIN its
    THEN [its EXCEPT ![id] = touch(@, cur, tot)]
    ELSE its

updateProgress(its, id, cur, tot) == updateLastAccessed(its, id, cur, tot)

saveComicMetadata(md, comic) == Put(md, comic.id, comic)

\* deleteComic(id): deletes the record with that id from the record store.
deleteComicRecord(its, id) == Remove(its, id)

(***************************************************************************)
(* Session stores.                                                         *)
(***************************************************************************)
setComic(comic, file) ==
    [open |-> TRUE, id |-> comic.id, file |-> file,
     currentPage |-> comic.currentPage, totalPages |-> comic.totalPages]

InFlight(c) ==
    Cardinality({t \in Tasks : /\ task[t].pc \notin {"idle", "saveMeta", "setComic"}
                               /\ task[t].file.bytes = c})

RefCount(h) == IF h \in DOMAIN blobs THEN blobs[h].refCount ELSE 0

(***************************************************************************)
(* handleFile(file, loadComics), one action per await.                     *)
(***************************************************************************)
\* isSupported, then findDuplicate.
handleFile_begin(t, file) ==
    /\ task[t].pc = "idle"
    /\ ingests[file.bytes] + InFlight(file.bytes) < MaxIngest
    /\ IF ~isSupported(file)
       THEN task' = [task EXCEPT ![t] = Failed(UnsupportedFormat)]
       ELSE LET existingItem == findDuplicate(file) IN
            /\ task' = [task EXCEPT ![t] =
                          [IdleTask EXCEPT !.file = file,
                                           !.existing = existingItem,
                                           !.pc = IF existingItem # NoId
                                                  THEN "dupMeta" ELSE "open"]]
    /\ UNCHANGED <<now, items, blobs, comicMetadata, dbComics, dbPages, nextId,
                   reader, created, ingests, reuses>>
    /\ UNCHANGED auxVars

\* getComicMetadata(existingItem.id): without a metadata record the call
\* falls through to the processing of a new comic.
handleFile_dupMeta(t) ==
    /\ task[t].pc = "dupMeta"
    /\ LET id == task[t].existing IN
       IF id \in DOMAIN comicMetadata
       THEN task' = [task EXCEPT ![t].comic = comicMetadata[id],
                                 ![t].pc = IF comicMetadata[id].totalPages = 0
                                           THEN "dupLegacy" ELSE "dupTouch"]
       ELSE task' = [task EXCEPT ![t].pc = "open"]
    /\ UNCHANGED <<now, items, blobs, comicMetadata, dbComics, dbPages, nextId,
                   reader, created, ingests, reuses>>
    /\ UNCHANGED auxVars

\* The duplicate has no page count: openArchive and saveComicMetadata.
handleFile_dupLegacy(t) ==
    /\ task[t].pc = "dupLegacy"
    /\ IF ~Openable(task[t].file)
       THEN /\ task' = [task EXCEPT ![t] = Failed(ArchiveOpenFailure)]
            /\ UNCHANGED comicMetadata
       ELSE LET comic == [task[t].comic EXCEPT
                            !.totalPages = PageCount(task[t].file)] IN
            /\ comicMetadata' = saveComicMetadata(comicMetadata, comic)
            /\ task' = [task EXCEPT ![t].comic = comic, ![t].pc = "dupTouch"]
    /\ UNCHANGED <<now, items, blobs, dbComics, dbPages, nextId, reader,
                   created, ingests, reuses>>
    /\ UNCHANGED auxVars

\* A faulty handleFile_dupTouch: the duplicate path also puts the bytes.
handleFile_dupTouch_puts(t) ==
    /\ task[t].pc = "dupTouch"
    /\ LET comic == task[t].comic
           c == task[t].file.bytes IN
       /\ items' = updateLastAccessed(items, task[t].existing,
                                      comic.currentPage, comic.totalPages)
       /\ blobs' = BlobPut(blobs, c)
       /\ reader' = setComic(comic, task[t].file)
       /\ task' = [task EXCEPT ![t] = IdleTask]
       /\ ingests' = [ingests EXCEPT ![c] = @ + 1]
       /\ reuses' = [reuses EXCEPT ![c] = @ + 1]
    /\ UNCHANGED <<now, comicMetadata, dbComics, dbPages, nextId, created>>
    /\ UNCHANGED auxVars

\* updateLastAccessed, setComic, return.
handleFile_dupTouch(t) ==
    /\ task[t].pc = "dupTouch"
    /\ LET comic == task[t].comic
           c == task[t].file.bytes IN
       /\ items' = updateLastAccessed(items, task[t].existing,
                                      comic.currentPage, comic.totalPages)
       /\ reader' = setComic(comic, task[t].file)
       /\ task' = [task EXCEPT ![t] = IdleTask]
       /\ ingests' = [ingests EXCEPT ![c] = @ + 1]
       /\ reuses' = [reuses EXCEPT ![c] = @ + 1]
    /\ UNCHANGED <<now, blobs, comicMetadata, dbComics, dbPages, nextId, created>>
    /\ UNCHANGED auxVars

\* A faulty handleFile_open: the file is saved before the archive is looked
\* at.
handleFile_open_saves(t) ==
    /\ task[t].pc = "open"
    /\ IF ~Openable(task[t].file)
       THEN /\ task' = [task EXCEPT ![t] = Failed(ArchiveOpenFailure)]
            /\ UNCHANGED <<items, blobs, nextId, created>>
       ELSE IF PageCount(task[t].file) = 0
       THEN /\ task' = [task EXCEPT ![t] = Failed(EmptyArchive)]
            /\ IF nextId <= MaxItems
               THEN saveFile(task[t].file, FALSE)
               ELSE UNCHANGED <<items, blobs, nextId, created>>
       ELSE /\ task' = [task EXCEPT ![t].pc = "thumb"]
            /\ UNCHANGED <<items, blobs, nextId, created>>
    /\ UNCHANGED <<now, comicMetadata, dbComics, dbPages, reader, ingests,
                   reuses>>
    /\ UNCHANGED auxVars

\* openArchive rejects, or the archive has no image: the catch block reports
\* the message of the error thrown.
handleFile_open(t) ==
    /\ task[t].pc = "open"
    /\ IF ~Openable(task[t].file)
       THEN task' = [task EXCEPT ![t] = Failed(ArchiveOpenFailure)]
       ELSE IF PageCount(task[t].file) = 0
       THEN task' = [task EXCEPT ![t] = Failed(EmptyArchive)]
       ELSE task' = [task EXCEPT ![t].pc = "thumb"]
    /\ UNCHANGED <<now, items, blobs, comicMetadata, dbComics, dbPages, nextId,
                   reader, created, ingests, reuses>>
    /\ UNCHANGED auxVars

\* A faulty handleFile_thumbnail: a failure of loadPage or createThumbnail is
\* not caught and ends the call.
handleFile_thumbnail_throws(t) ==
    /\ task[t].pc = "thumb"
    /\ \E made \in BOOLEAN :
         task' = [task EXCEPT ![t] =
                    IF made THEN [@ EXCEPT !.thumbnail = TRUE, !.pc = "save"]
                    ELSE Failed(StorageFailure)]
    /\ UNCHANGED <<now, items, blobs, comicMetadata, dbComics, dbPages, nextId,
                   reader, created, ingests, reuses>>
    /\ UNCHANGED auxVars

\* loadPage(pages[0]) and createThumbnail inside try/catch: a failure leaves
\* the thumbnail undefined and the call goes on.
handleFile_thumbnail(t) ==
    /\ task[t].pc = "thumb"
    /\ \E made \in BOOLEAN :
         task' = [task EXCEPT ![t].thumbnail = made, ![t].pc = "save"]
    /\ UNCHANGED <<now, items, blobs, comicMetadata, dbComics, dbPages, nextId,
                   reader, created, ingests, reuses>>
    /\ UNCHANGED auxVars

\* comicStorage.saveFile(file, { thumbnail }).
handleFile_save(t) ==
    /\ task[t].pc = "save"
    /\ saveFile(task[t].file, task[t].thumbnail)
    /\ task' = [task EXCEPT ![t].pc = "saveMeta", ![t].fsItem = ItemId(nextId)]
    /\ ingests' = [ingests EXCEPT ![task[t].file.bytes] = @ + 1]
    /\ UNCHANGED <<now, comicMetadata, dbComics, dbPages, reader, reuses>>
    /\ UNCHANGED auxVars

\* saveFile rejects: the catch block reports the error.
handleFile_saveFails(t) ==
    /\ task[t].pc = "save"
    /\ task' = [task EXCEPT ![t] = Failed(StorageFailure)]
    /\ UNCHANGED <<now, items, blobs, comicMetadata, dbComics, dbPages, nextId,
                   reader, created, ingests, reuses>>
    /\ UNCHANGED auxVars

\* The ComicBook of the new Item, saveComicMetadata(comic).
handleFile_saveMeta(t) ==
    /\ task[t].pc = "saveMeta"
    /\ LET comic == ComicBook(task[t].fsItem, 0, PageCount(task[t].file)) IN
       /\ comicMetadata' = saveComicMetadata(comicMetadata, comic)
       /\ task' = [task EXCEPT ![t].comic = comic, ![t].pc = "setComic"]
    /\ UNCHANGED <<now, items, blobs, dbComics, dbPages, nextId, reader,
                   created, ingests, reuses>>
    /\ UNCHANGED auxVars

\* loadComics, setComic, goto('/reader').
handleFile_setComic(t) ==
    /\ task[t].pc = "setComic"
    /\ reader' = setComic(task[t].comic, task[t].file)
    /\ task' = [task EXCEPT ![t] = IdleTask]
    /\ UNCHANGED <<now, items, blobs, comicMetadata, dbComics, dbPages, nextId,
                   created, ingests, reuses>>
    /\ UNCHANGED auxVars

\* saveComicMetadata rejects: the Item stays, the catch block reports the error.
handleFile_saveMetaFails(t) ==
    /\ task[t].pc = "saveMeta"
    /\ task' = [task EXCEPT ![t] = Failed(StorageFailure)]
    /\ UNCHANGED <<now, items, blobs, comicMetadata, dbComics, dbPages, nextId,
                   reader, created, ingests, reuses>>
    /\ UNCHANGED auxVars

(***************************************************************************)
(* UploadService.processFiles: one saveFile per comic file of the list.    *)
(***************************************************************************)
processFiles(file) ==
    /\ isComicFile(file.name)
    /\ ingests[file.bytes] + InFlight(file.bytes) < MaxIngest
    /\ saveFile(file, FALSE)
    /\ ingests' = [ingests EXCEPT ![file.bytes] = @ + 1]
    /\ UNCHANGED <<now, comicMetadata, dbComics, dbPages, task, reader, reuses>>
    /\ UNCHANGED auxVars

(***************************************************************************)
(* deleteComic(id) of the library pages: comicStorage.deleteComic(id).     *)
(***************************************************************************)
\* A faulty deleteComic: the Blob of the deleted Item is deleted with it,
\* whatever its refCount.
deleteComic_dropsBlob(id) ==
    /\ id \in DOMAIN created
    /\ items' = deleteComicRecord(items, id)
    /\ blobs' = IF id \in DOMAIN items
                THEN Remove(blobs, items[id].contentHash) ELSE blobs
    /\ UNCHANGED <<now, comicMetadata, dbComics, dbPages, nextId, task,
                   reader, created, ingests, reuses>>
    /\ UNCHANGED auxVars

deleteComic(id) ==
    /\ id \in DOMAIN created
    /\ items' = deleteComicRecord(items, id)
    /\ UNCHANGED <<now, blobs, comicMetadata, dbComics, dbPages, nextId, task,
                   reader, created, ingests, reuses>>
    /\ UNCHANGED auxVars

(***************************************************************************)
(* Opening a comic from the home page.                                     *)
(***************************************************************************)
\* openRecentComic(item): getFile, the metadata of the listed item (created
\* when it is missing or has no pages), updateLastAccessed, setComic.
openRecentComic(id) ==
    /\ id \in DOMAIN created
    /\ IF getFile(id) = {}
       THEN UNCHANGED <<items, comicMetadata, reader>>
       ELSE LET file == CHOOSE f \in getFile(id) : TRUE
                fresh == id \notin DOMAIN comicMetadata
                         \/ comicMetadata[id].totalPages = 0 IN
            IF fresh /\ ~Openable(file)
            THEN UNCHANGED <<items, comicMetadata, reader>>
            ELSE LET comic == IF fresh
                              THEN ComicBook(id, 0, PageCount(file))
                              ELSE comicMetadata[id] IN
                 /\ comicMetadata' = saveComicMetadata(comicMetadata, comic)
                 /\ items' = updateLastAccessed(items, id, comic.currentPage,
                                                comic.totalPages)
                 /\ reader' = setComic(comic, file)
    /\ UNCHANGED <<now, blobs, dbComics, dbPages, nextId, task, created,
                   ingests, reuses>>
    /\ UNCHANGED auxVars

\* openLocalComic(item): a file of the local folder, under the id
\* "local-<name>"; it has no Item.
openLocalComic(name) ==
    /\ LET id == LocalId(name)
           file == [name |-> name, bytes |-> MaxContent]
           fresh == id \notin DOMAIN comicMetadata
                    \/ comicMetadata[id].totalPages = 0
           comic == IF fresh
                    THEN ComicBook(id, 0, PageCount(file))
                    ELSE comicMetadata[id] IN
       /\ comicMetadata' = saveComicMetadata(comicMetadata, comic)
       /\ reader' = setComic(comic, file)
    /\ UNCHANGED <<now, items, blobs, dbComics, dbPages, nextId, task, created,
                   ingests, reuses>>
    /\ UNCHANGED auxVars

(***************************************************************************)
(* The reader page.                                                        *)
(***************************************************************************)
\* The currentPageIndex subscription: dbStore.saveComic, then
\* comicStorage.updateProgress.
unsubscribePage(pageIndex) ==
    /\ reader.open
    /\ pageIndex \in 0..(reader.totalPages - 1)
    /\ pageIndex # reader.currentPage
    /\ reader' = [reader EXCEPT !.currentPage = pageIndex]
    /\ dbComics' = Put(dbComics, reader.id,
                       ComicBook(reader.id, pageIndex, reader.totalPages))
    /\ items' = updateProgress(items, reader.id, pageIndex, reader.totalPages)
    /\ UNCHANGED <<now, blobs, comicMetadata, dbPages, nextId, task, created,
                   ingests, reuses>>
    /\ UNCHANGED auxVars

\* onExtractPage(index) for the page shown: the cached blob, or loadPage and
\* savePageBlob.
onExtractPage ==
    /\ reader.open
    /\ reader.currentPage < reader.totalPages
    /\ LET key == <<reader.id, reader.currentPage>> IN
       IF key \in DOMAIN dbPages
       THEN UNCHANGED dbPages
       ELSE dbPages' = Put(dbPages, key,
                           PageEntry(PageBlob(reader.file, reader.currentPage),
                                     now))
    /\ UNCHANGED <<now, items, blobs, comicMetadata, dbComics, nextId, task,
                   reader, created, ingests, reuses>>
    /\ UNCHANGED auxVars

\* exitReader: saveProgress, then back to the home page.
exitReader ==
    /\ reader.open
    /\ dbComics' = Put(dbComics, reader.id,
                       ComicBook(reader.id, reader.currentPage,
                                 reader.totalPages))
    /\ items' = updateProgress(items, reader.id, reader.currentPage,
                               reader.totalPages)
    /\ reader' = NoReader
    /\ UNCHANGED <<now, blobs, comicMetadata, dbPages, nextId, task, created,
                   ingests, reuses>>
    /\ UNCHANGED auxVars

Tick ==
    /\ now < MaxClock
    /\ now' = now + 1
    /\ UNCHANGED <<items, blobs, comicMetadata, dbComics, dbPages, nextId, task,
                   reader, created, ingests, reuses>>
    /\ UNCHANGED auxVars

(***************************************************************************)
(* The library: a fresh installation.                                      *)
(***************************************************************************)
Init ==
    /\ now = 0
    /\ items = Empty
    /\ blobs = Empty
    /\ comicMetadata = Empty
    /\ dbComics = Empty
    /\ dbPages = Empty
    /\ nextId = 1
    /\ task = [t \in Tasks |-> IdleTask]
    /\ reader = NoReader
    /\ created = Empty
    /\ ingests = [c \in Contents |-> 0]
    /\ reuses = [c \in Contents |-> 0]
    /\ call = [t \in Tasks |-> IdleCall]
    /\ pending = [cl \in Clients |-> IdleOp]
    /\ blobHist = [c \in Contents |-> NoHist(0)]
    /\ fetch = [c \in Fetchers |-> IdleFetch]
    /\ pageBlob = {}
    /\ extractions = [i \in PageIndexes |-> 0]
    /\ recentComics = NoRecent
    /\ archive = <<>>
    /\ listing = NoListing
    /\ NothingOpen
    /\ db = TRUE

\* Ingestion, deletion and opening from the home page.
Next ==
    \/ \E t \in Tasks, file \in Files : handleFile_begin(t, file)
    \/ \E t \in Tasks : handleFile_dupMeta(t)
    \/ \E t \in Tasks : handleFile_dupLegacy(t)
    \/ \E t \in Tasks : handleFile_dupTouch(t)
    \/ \E t \in Tasks : handleFile_open(t)
    \/ \E t \in Tasks : handleFile_thumbnail(t)
    \/ \E t \in Tasks : handleFile_save(t)
    \/ \E t \in Tasks : handleFile_saveFails(t)
    \/ \E t \in Tasks : handleFile_saveMeta(t)
    \/ \E t \in Tasks : handleFile_setComic(t)
    \/ \E t \in Tasks : handleFile_saveMetaFails(t)
    \/ \E file \in Files : processFiles(file)
    \/ \E id \in ItemIds : deleteComic(id)
    \/ \E id \in ItemIds : openRecentComic(id)
    \/ Tick

Spec == Init /\ [][Next]_casVars

\* The library with the reader: bulk upload, deletion, opening and reading.
NextReader ==
    \/ \E file \in Files : processFiles(file)
    \/ \E id \in ItemIds : deleteComic(id)
    \/ \E id \in ItemIds : openRecentComic(id)
    \/ \E name \in LocalNames : openLocalComic(name)
    \/ \E pageIndex \in 0..MaxContent : unsubscribePage(pageIndex)
    \/ onExtractPage
    \/ exitReader
    \/ Tick

SpecReader == Init /\ [][NextReader]_casVars

(***************************************************************************)
(* ComicStorageManager.saveComic and getComic, one action per transaction. *)
(***************************************************************************)
\* normalizeRecord: the missing fields of a stored record filled in.
normalizeRecord(record) ==
    [record EXCEPT !.currentPage = IF @ = Undefined THEN 0 ELSE @,
                   !.totalPages = IF @ = Undefined THEN 0 ELSE @,
                   !.version = recordVersion]

\* getComic(id) of a page: the readonly transaction and normalizeRecord; a
\* record that normalizeRecord changed is handed to persistRecord.
getComic(t, id) ==
    /\ call[t].pc = "idle"
    /\ IF id \in DOMAIN items /\ normalizeRecord(items[id]) # items[id]
       THEN call' = [call EXCEPT ![t] =
                       [pc |-> "persist", op |-> "getComic", id |-> id,
                        file |-> NoRecFile, totalPages |-> Undefined,
                        record |-> normalizeRecord(items[id])]]
       ELSE UNCHANGED call
    /\ UNCHANGED <<libVars, pending, blobHist, pageVars, listVars, arcVars>>

\* saveComic(file, { totalPages }): generateId and the getComic(id) that
\* looks for the record.
saveComic_get(t, file, totalPages) ==
    /\ call[t].pc = "idle"
    /\ LET id == generateId(file.name, Len(file.bytes)) IN
       call' = [call EXCEPT ![t] =
                  IF id \notin DOMAIN items
                  THEN [pc |-> "put", op |-> "saveComic", id |-> id,
                        file |-> file, totalPages |-> totalPages,
                        record |-> NoRecord]
                  ELSE IF normalizeRecord(items[id]) # items[id]
                  THEN [pc |-> "persist", op |-> "saveComic", id |-> id,
                        file |-> file, totalPages |-> totalPages,
                        record |-> normalizeRecord(items[id])]
                  ELSE [pc |-> "touch", op |-> "saveComic", id |-> id,
                        file |-> file, totalPages |-> totalPages,
                        record |-> NoRecord]]
    /\ UNCHANGED <<libVars, pending, blobHist, pageVars, listVars, arcVars>>

\* persistRecord(record): a readwrite transaction that puts the record
\* normalizeRecord built.
persistRecord(t) ==
    /\ call[t].pc = "persist"
    /\ items' = Put(items, call[t].id, call[t].record)
    /\ created' = Put(created, call[t].id, hash(call[t].record.fileBuffer))
    /\ call' = [call EXCEPT ![t] =
                  IF call[t].op = "saveComic"
                  THEN [@ EXCEPT !.pc = "touch", !.record = NoRecord]
                  ELSE IdleCall]
    /\ UNCHANGED <<now, blobs, comicMetadata, dbComics, dbPages, nextId, task,
                   reader, ingests, reuses, pending, blobHist, pageVars, listVars, arcVars>>

\* saveComic, the record exists: updateLastAccessed(id), return id.
saveComic_touch(t) ==
    /\ call[t].pc = "touch"
    /\ items' = updateLastAccessed(items, call[t].id, Undefined, Undefined)
    /\ call' = [call EXCEPT ![t] = IdleCall]
    /\ UNCHANGED <<now, blobs, comicMetadata, dbComics, dbPages, nextId, task,
                   reader, created, ingests, reuses, pending, blobHist, pageVars, listVars, arcVars>>

\* saveComic, no record: put the new record, return id.
saveComic_put(t) ==
    /\ call[t].pc = "put"
    /\ items' = Put(items, call[t].id, ComicRecord(call[t].file, now, call[t].totalPages))
    /\ created' = Put(created, call[t].id, hash(call[t].file.bytes))
    /\ call' = [call EXCEPT ![t] = IdleCall]
    /\ UNCHANGED <<now, blobs, comicMetadata, dbComics, dbPages, nextId, task,
                   reader, ingests, reuses, pending, blobHist, pageVars, listVars, arcVars>>

\* saveProgress of the reader page for the comic it shows: dbStore.saveComic,
\* then comicStorage.updateProgress.
saveProgress(id, pageIndex, totalPages) ==
    /\ id \in DOMAIN created
    /\ dbComics' = Put(dbComics, id, ComicBook(id, pageIndex, totalPages))
    /\ items' = updateProgress(items, id, pageIndex, totalPages)
    /\ UNCHANGED <<now, blobs, comicMetadata, dbPages, nextId, task, reader,
                   created, ingests, reuses, auxVars>>

\* The call that returned last: what it was, and the record it put (NoRecord
\* when the get found none, "Not found").
Returned(name, id, record) ==
    [IdleCall EXCEPT !.op = name, !.id = id, !.record = record]

\* saveFilterSetting(comicId, filter): one readwrite transaction that gets
\* the record and, when there is one, puts it back with the filter.
saveFilterSetting(t, comicId, filter) ==
    /\ call[t].pc = "idle"
    /\ items' = IF comicId \in DOMAIN items
                THEN [items EXCEPT ![comicId].filter = filter]
                ELSE items
    /\ call' = [call EXCEPT ![t] =
                  Returned("saveFilterSetting", comicId,
                           IF comicId \in DOMAIN items
                           THEN items'[comicId] ELSE NoRecord)]
    /\ UNCHANGED <<now, blobs, comicMetadata, dbComics, dbPages, nextId, task,
                   reader, created, ingests, reuses, pending, blobHist,
                   pageVars, listVars, arcVars>>

\* updateProgress(id, currentPage, totalPages) of a caller that holds the id,
\* as saveProgress of the reader page does when the page is left:
\* updateLastAccessed(id, { currentPage, totalPages }).
updateProgress_call(t, id, currentPage, totalPages) ==
    /\ call[t].pc = "idle"
    /\ items' = updateProgress(items, id, currentPage, totalPages)
    /\ call' = [call EXCEPT ![t] =
                  Returned("updateProgress", id,
                           IF id \in DOMAIN items THEN items'[id] ELSE NoRecord)]
    /\ UNCHANGED <<now, blobs, comicMetadata, dbComics, dbPages, nextId, task,
                   reader, created, ingests, reuses, pending, blobHist,
                   pageVars, listVars, arcVars>>

\* objectStore.getAll(): the ids of the records, in key order.
RecNameOrder == <<"a.cbz", "b.cbz">>
KeyOrder == [i \in DOMAIN RecNameOrder |-> generateId(RecNameOrder[i], 1)]
getAll(its) ==
    LET InStore(id) == id \in DOMAIN its IN SelectSeq(KeyOrder, InStore)

Min(a, b) == IF a <= b THEN a ELSE b

\* A faulty sortByLastAccessed: the list is left in the order it came in.
sortByLastAccessed_keeps(its, ids) == ids

\* Array.prototype.sort((a, b) => b.lastAccessed - a.lastAccessed): stable,
\* later lastAccessed first.
RECURSIVE sortByLastAccessed(_, _)
sortByLastAccessed(its, ids) ==
    IF ids = <<>> THEN <<>>
    ELSE LET front == sortByLastAccessed(its, SubSeq(ids, 1, Len(ids) - 1))
             x == ids[Len(ids)]
             k == Cardinality({i \in DOMAIN front :
                     its[front[i]].lastAccessed >= its[x].lastAccessed})
         IN SubSeq(front, 1, k) \o <<x>> \o SubSeq(front, k + 1, Len(front))

\* getAllComics(): getAll, normalizeRecord of every record, sort.
getAllComics(its) ==
    sortByLastAccessed([id \in DOMAIN its |-> normalizeRecord(its[id])],
                       getAll(its))

\* Array.prototype.slice(0, end).
slice(seq, end) == SubSeq(seq, 1, Min(end, Len(seq)))

\* loadComics of the home page: getAllComics (which persists the records
\* normalizeRecord changed) and the sort of the list.
loadComics ==
    /\ recentComics' = [files |-> sortByLastAccessed(items, getAllComics(items)),
                        loads |-> 1 - recentComics.loads]
    /\ items' = [id \in DOMAIN items |-> normalizeRecord(items[id])]
    /\ UNCHANGED <<now, blobs, comicMetadata, dbComics, dbPages, nextId, task,
                   reader, created, ingests, reuses, call, pending, blobHist,
                   pageVars, archive, listing, arcVars>>

\* A library written by the earlier version of the storage manager.
LegacyLibraries ==
    {[id \in {generateId(f.name, Len(f.bytes)) : f \in F} |->
         LegacyRecord(CHOOSE f \in F : generateId(f.name, Len(f.bytes)) = id, 0)]
       : F \in {{}} \cup {{f} : f \in RecFiles}}

InitRecords ==
    /\ now = 0
    /\ items \in LegacyLibraries
    /\ blobs = Empty
    /\ comicMetadata = Empty
    /\ dbComics = Empty
    /\ dbPages = Empty
    /\ nextId = 1
    /\ task = [t \in Tasks |-> IdleTask]
    /\ reader = NoReader
    /\ created = [id \in DOMAIN items |-> hash(items[id].fileBuffer)]
    /\ ingests = [c \in Contents |-> 0]
    /\ reuses = [c \in Contents |-> 0]
    /\ call = [t \in Tasks |-> IdleCall]
    /\ pending = [cl \in Clients |-> IdleOp]
    /\ blobHist = [c \in Contents |-> NoHist(0)]
    /\ fetch = [c \in Fetchers |-> IdleFetch]
    /\ pageBlob = {}
    /\ extractions = [i \in PageIndexes |-> 0]
    /\ recentComics = NoRecent
    /\ archive = <<>>
    /\ listing = NoListing
    /\ NothingOpen
    /\ db = TRUE

NextRecords ==
    \/ \E t \in Tasks, id \in RecordIds : getComic(t, id)
    \/ \E t \in Tasks, file \in RecFiles, totalPages \in 1..MaxContent :
          saveComic_get(t, file, totalPages)
    \/ \E t \in Tasks : persistRecord(t)
    \/ \E t \in Tasks : saveComic_touch(t)
    \/ \E t \in Tasks : saveComic_put(t)
    \/ \E id \in RecordIds, pageIndex \in 0..(MaxContent - 1) :
          saveProgress(id, pageIndex, MaxContent)
    \/ \E id \in RecordIds : deleteComic(id)
    \/ Tick

SpecRecords == InitRecords /\ [][NextRecords]_casVars

(***************************************************************************)
(* Opening the store: init and migrateLegacyRecords.                       *)
(***************************************************************************)
\* needsMigration of migrateLegacyRecords, on the fields a record carries
\* here: no bytes, no size, or another version than recordVersion.
needsMigration(record) ==
    \/ record.fileBuffer = <<>>
    \/ record.fileSize = 0
    \/ record.version # recordVersion

\* The position of a key in the order of the store; the cursor has not
\* reached a record while it stands at NoId.
KeyPosition(id) ==
    IF id = NoId THEN 0 ELSE CHOOSE i \in DOMAIN KeyOrder : KeyOrder[i] = id

\* cursor.continue(): the next stored key after the one the cursor is at,
\* NoId when there is none.
continue(its, id) ==
    LET After(k) == KeyPosition(k) > KeyPosition(id)
        rest == SelectSeq(getAll(its), After)
    IN IF rest = <<>> THEN NoId ELSE Head(rest)

\* The callers of the storage manager while the store is being opened.
Callers == 1..MaxCallers

\* init() up to its await: it returns at once when this.db is set, and
\* otherwise asks indexedDB to open the database.
init(t) ==
    /\ ~db
    /\ call[t].pc = "idle"
    /\ call' = [call EXCEPT ![t] = [IdleCall EXCEPT !.pc = "open",
                                                    !.op = "init"]]
    /\ UNCHANGED <<libVars, pending, blobHist, pageVars, listVars, arcVars>>

\* init() after the open request succeeded: the database is kept in this.db,
\* then migrateLegacyRecords opens its cursor on the record store.
init_opened(t) ==
    /\ call[t].pc = "open"
    /\ db' = TRUE
    /\ call' = [call EXCEPT ![t].pc = "cursor"]
    /\ UNCHANGED <<libVars, pending, blobHist, pageVars, listVars, pages,
                   loading, mgrVars, upload, sessVars>>

\* cursorRequest.onsuccess of migrateLegacyRecords: past the last record the
\* pass is over and init returns (the shared database of the earlier version
\* holds no record); a record that needs no migration is passed; any other
\* goes through normalizeRecord, which hands the record it changed to
\* persistRecord.
migrateLegacyRecords_cursor(t) ==
    /\ call[t].pc = "cursor"
    /\ LET id == continue(items, call[t].id) IN
       call' = [call EXCEPT ![t] =
                  IF id = NoId THEN IdleCall
                  ELSE IF \/ ~needsMigration(items[id])
                          \/ normalizeRecord(items[id]) = items[id]
                  THEN [@ EXCEPT !.id = id]
                  ELSE [@ EXCEPT !.pc = "migrate", !.id = id,
                                 !.record = normalizeRecord(items[id])]]
    /\ UNCHANGED <<libVars, pending, blobHist, pageVars, listVars, arcVars>>

\* persistRecord of the pass, and the cursor.continue() of the finally
\* block.  The put succeeds or fails (the error is logged); the cursor's
\* readonly transaction is no longer active after the await, so continue()
\* either moves the cursor or throws, and then the promise of the pass is
\* never settled.
migrateLegacyRecords_persist(t, ok, continues) ==
    /\ call[t].pc = "migrate"
    /\ items' = IF ok THEN Put(items, call[t].id, call[t].record) ELSE items
    /\ created' = IF ok
                  THEN Put(created, call[t].id, hash(call[t].record.fileBuffer))
                  ELSE created
    /\ call' = [call EXCEPT ![t] =
                  [@ EXCEPT !.pc = IF continues THEN "cursor" ELSE "stalled",
                            !.record = NoRecord]]
    /\ UNCHANGED <<now, blobs, comicMetadata, dbComics, dbPages, nextId, task,
                   reader, ingests, reuses, pending, blobHist, pageVars,
                   listVars, arcVars>>

\* The record store a session finds: records of the earlier version and of
\* this one.
StoredRecords(file) == {LegacyRecord(file, 0), ComicRecord(file, 0, Undefined)}
StoredLibraries ==
    {lib \in UNION {[ids -> UNION {StoredRecords(f) : f \in RecFiles}] :
                       ids \in SUBSET RecordIds} :
        \A id \in DOMAIN lib :
            generateId(lib[id].filename, lib[id].fileSize) = id}

InitMigrate ==
    /\ now = 0
    /\ items \in StoredLibraries
    /\ blobs = Empty
    /\ comicMetadata = Empty
    /\ dbComics = Empty
    /\ dbPages = Empty
    /\ nextId = 1
    /\ task = [t \in Tasks |-> IdleTask]
    /\ reader = NoReader
    /\ created = [id \in DOMAIN items |-> hash(items[id].fileBuffer)]
    /\ ingests = [c \in Contents |-> 0]
    /\ reuses = [c \in Contents |-> 0]
    /\ call = [t \in Callers |-> IdleCall]
    /\ pending = [cl \in Clients |-> IdleOp]
    /\ blobHist = [c \in Contents |-> NoHist(0)]
    /\ fetch = [c \in Fetchers |-> IdleFetch]
    /\ pageBlob = {}
    /\ extractions = [i \in PageIndexes |-> 0]
    /\ recentComics = NoRecent
    /\ archive = <<>>
    /\ listing = NoListing
    /\ NothingOpen
    /\ db = FALSE

\* Every call of the storage manager awaits ensureDB first: it runs once the
\* database is set.
NextMigrate ==
    \/ \E t \in Callers : init(t)
    \/ \E t \in Callers : init_opened(t)
    \/ \E t \in Callers : migrateLegacyRecords_cursor(t)
    \/ \E t \in Callers, ok \in BOOLEAN, continues \in BOOLEAN :
          migrateLegacyRecords_persist(t, ok, continues)
    \/ \E t \in Callers, id \in RecordIds : db /\ getComic(t, id)
    \/ \E t \in Callers : persistRecord(t)
    \/ \E id \in RecordIds, pageIndex \in 0..(MaxContent - 1) :
          db /\ saveProgress(id, pageIndex, MaxContent)
    \/ Tick

SpecMigrate == InitMigrate /\ [][NextMigrate]_casVars

\* The same with the scheduling of the browser: the open request and every
\* request of a transaction end and their handlers run.  The callers are
\* under no obligation.
MigrateFairness ==
    \A t \in Callers :
        /\ WF_casVars(init_opened(t))
        /\ WF_casVars(migrateLegacyRecords_cursor(t))
        /\ WF_casVars(\E ok \in BOOLEAN, continues \in BOOLEAN :
                          migrateLegacyRecords_persist(t, ok, continues))
        /\ WF_casVars(persistRecord(t))

SpecMigrateLive == SpecMigrate /\ MigrateFairness

(***************************************************************************)
(* Progress and filter saves on the opened store.                          *)
(***************************************************************************)
InitUpdates ==
    /\ now = 0
    /\ items \in StoredLibraries
    /\ blobs = Empty
    /\ comicMetadata = Empty
    /\ dbComics = Empty
    /\ dbPages = Empty
    /\ nextId = 1
    /\ task = [t \in Tasks |-> IdleTask]
    /\ reader = NoReader
    /\ created = [id \in DOMAIN items |-> hash(items[id].fileBuffer)]
    /\ ingests = [c \in Contents |-> 0]
    /\ reuses = [c \in Contents |-> 0]
    /\ call = [t \in Tasks |-> IdleCall]
    /\ pending = [cl \in Clients |-> IdleOp]
    /\ blobHist = [c \in Contents |-> NoHist(0)]
    /\ fetch = [c \in Fetchers |-> IdleFetch]
    /\ pageBlob = {}
    /\ extractions = [i \in PageIndexes |-> 0]
    /\ recentComics = NoRecent
    /\ archive = <<>>
    /\ listing = NoListing
    /\ NothingOpen
    /\ db = TRUE

\* The calls of one instant: Date.now() stays as it is.
NextUpdates ==
    \/ \E t \in Tasks, id \in RecordIds, filter \in Filters :
          saveFilterSetting(t, id, filter)
    \/ \E t \in Tasks, id \in RecordIds, pageIndex \in 0..(MaxContent - 1) :
          updateProgress_call(t, id, pageIndex, MaxContent)
    \/ \E id \in RecordIds : deleteComic(id)

SpecUpdates == InitUpdates /\ [][NextUpdates]_casVars

(***************************************************************************)
(* Blob Store operations in flight (from the specification, 4.3 and 5):    *)
(* put and release are issued by concurrent callers and each executes as   *)
(* one transaction; a release is issued only for a reference that exists.  *)
(***************************************************************************)
PendingOn(kind, c) ==
    {cl \in Clients : pending[cl].kind = kind /\ pending[cl].bytes = c}

RECURSIVE OpsOf(_)
OpsOf(S) ==
    IF S = {} THEN 0
    ELSE LET c == CHOOSE x \in S : TRUE IN
         blobHist[c].puts + blobHist[c].releases + OpsOf(S \ {c})

OpsIssued ==
    OpsOf(Contents) + Cardinality({cl \in Clients : pending[cl].kind # "idle"})

\* References to the content that no issued release has claimed yet.
Outstanding(c) ==
    blobHist[c].base + blobHist[c].puts - blobHist[c].releases
        - Cardinality(PendingOn("release", c))

Max(a, b) == IF a >= b THEN a ELSE b

put_begin(cl, c) ==
    /\ pending[cl].kind = "idle"
    /\ OpsIssued < MaxOps
    /\ pending' = [pending EXCEPT ![cl] =
                     [kind |-> "put", bytes |-> c, seen |-> RefCount(hash(c))]]
    /\ blobHist' = [blobHist EXCEPT ![c] =
                      [@ EXCEPT !.conc = Max(@, Cardinality(PendingOn("put", c)) + 1),
                                !.raced = @ \/ (RefCount(hash(c)) = 1
                                                /\ PendingOn("release", c) # {})]]
    /\ UNCHANGED <<libVars, call, pageVars, listVars, arcVars>>

\* A faulty put_commit: the refCount written is the one read when the put
\* was issued, plus one.
put_commit_stale(cl) ==
    /\ pending[cl].kind = "put"
    /\ LET c == pending[cl].bytes IN
       /\ blobs' = Put(blobs, hash(c),
                       [data |-> c, refCount |-> pending[cl].seen + 1])
       /\ blobHist' = [blobHist EXCEPT ![c].puts = @ + 1]
    /\ pending' = [pending EXCEPT ![cl] = IdleOp]
    /\ UNCHANGED <<now, items, comicMetadata, dbComics, dbPages, nextId, task,
                   reader, created, ingests, reuses, call, pageVars, listVars, arcVars>>

put_commit(cl) ==
    /\ pending[cl].kind = "put"
    /\ LET c == pending[cl].bytes IN
       /\ blobs' = BlobPut(blobs, c)
       /\ blobHist' = [blobHist EXCEPT ![c].puts = @ + 1]
    /\ pending' = [pending EXCEPT ![cl] = IdleOp]
    /\ UNCHANGED <<now, items, comicMetadata, dbComics, dbPages, nextId, task,
                   reader, created, ingests, reuses, call, pageVars, listVars, arcVars>>

release_begin(cl, c) ==
    /\ pending[cl].kind = "idle"
    /\ OpsIssued < MaxOps
    /\ Outstanding(c) > 0
    /\ pending' = [pending EXCEPT ![cl] =
                     [kind |-> "release", bytes |-> c,
                      seen |-> RefCount(hash(c))]]
    /\ blobHist' = [blobHist EXCEPT ![c].raced =
                      @ \/ (RefCount(hash(c)) = 1 /\ PendingOn("put", c) # {})]
    /\ UNCHANGED <<libVars, call, pageVars, listVars, arcVars>>

\* A faulty release_commit: the release acts on the refCount read when it
\* was issued.
release_commit_stale(cl) ==
    /\ pending[cl].kind = "release"
    /\ LET c == pending[cl].bytes IN
       /\ hash(c) \in DOMAIN blobs
       /\ blobs' = IF pending[cl].seen > 1
                   THEN [blobs EXCEPT ![hash(c)].refCount = pending[cl].seen - 1]
                   ELSE Remove(blobs, hash(c))
       /\ blobHist' = [blobHist EXCEPT ![c].releases = @ + 1]
    /\ pending' = [pending EXCEPT ![cl] = IdleOp]
    /\ UNCHANGED <<now, items, comicMetadata, dbComics, dbPages, nextId, task,
                   reader, created, ingests, reuses, call, pageVars, listVars, arcVars>>

release_commit(cl) ==
    /\ pending[cl].kind = "release"
    /\ LET c == pending[cl].bytes IN
       /\ hash(c) \in DOMAIN blobs
       /\ blobs' = BlobRelease(blobs, hash(c))
       /\ blobHist' = [blobHist EXCEPT ![c].releases = @ + 1]
    /\ pending' = [pending EXCEPT ![cl] = IdleOp]
    /\ UNCHANGED <<now, items, comicMetadata, dbComics, dbPages, nextId, task,
                   reader, created, ingests, reuses, call, pageVars, listVars, arcVars>>

\* A Blob Store that holds some of the contents already.
InitBlob ==
    /\ now = 0
    /\ items = Empty
    /\ \E n \in {m \in [Contents -> 0..MaxBase] : m[0] = 0} :
          /\ blobs = [h \in {hash(c) : c \in {x \in Contents : n[x] > 0}} |->
                        [data |-> h[2], refCount |-> n[h[2]]]]
          /\ blobHist = [c \in Contents |-> NoHist(n[c])]
          /\ fetch = [c \in Fetchers |-> IdleFetch]
          /\ pageBlob = {}
          /\ extractions = [i \in PageIndexes |-> 0]
          /\ recentComics = NoRecent
          /\ archive = <<>>
          /\ listing = NoListing
          /\ NothingOpen
          /\ db = TRUE
    /\ comicMetadata = Empty
    /\ dbComics = Empty
    /\ dbPages = Empty
    /\ nextId = 1
    /\ task = [t \in Tasks |-> IdleTask]
    /\ reader = NoReader
    /\ created = Empty
    /\ ingests = [c \in Contents |-> 0]
    /\ reuses = [c \in Contents |-> 0]
    /\ call = [t \in Tasks |-> IdleCall]
    /\ pending = [cl \in Clients |-> IdleOp]

\* The operations are issued on the contents 1..MaxContent.
NextBlob ==
    \/ \E cl \in Clients, c \in Contents \ {0} : put_begin(cl, c)
    \/ \E cl \in Clients : put_commit(cl)
    \/ \E cl \in Clients, c \in Contents \ {0} : release_begin(cl, c)
    \/ \E cl \in Clients : release_commit(cl)

SpecBlob == InitBlob /\ [][NextBlob]_casVars

(***************************************************************************)
(* The home page over a stored library: the list of comics, accesses and   *)
(* deletions.                                                              *)
(***************************************************************************)
\* comicStorage.updateLastAccessed(id) without progress data.
touchComic(id) ==
    /\ id \in DOMAIN items
    /\ items' = updateLastAccessed(items, id, Undefined, Undefined)
    /\ UNCHANGED <<now, blobs, comicMetadata, dbComics, dbPages, nextId, task,
                   reader, created, ingests, reuses, auxVars>>

\* The libraries the home page can find: records of the current and of the
\* earlier version, accessed at any time so far.
HomeLibraries ==
    LET fileOf(id) == CHOOSE f \in RecFiles :
                         /\ generateId(f.name, Len(f.bytes)) = id
                         /\ f.bytes = <<0>>
        record(id, sel) == IF sel.legacy
                           THEN LegacyRecord(fileOf(id), sel.t)
                           ELSE ComicRecord(fileOf(id), sel.t, MaxContent)
    IN UNION {{[id \in D |-> record(id, sel[id])] :
                  sel \in [D -> [legacy : BOOLEAN, t : 0..MaxClock]]} :
              D \in SUBSET RecordIds}

InitHome ==
    /\ now = MaxClock
    /\ items \in HomeLibraries
    /\ blobs = Empty
    /\ comicMetadata = Empty
    /\ dbComics = Empty
    /\ dbPages = Empty
    /\ nextId = 1
    /\ task = [t \in Tasks |-> IdleTask]
    /\ reader = NoReader
    /\ created = [id \in DOMAIN items |-> hash(items[id].fileBuffer)]
    /\ ingests = [c \in Contents |-> 0]
    /\ reuses = [c \in Contents |-> 0]
    /\ call = [t \in Tasks |-> IdleCall]
    /\ pending = [cl \in Clients |-> IdleOp]
    /\ blobHist = [c \in Contents |-> NoHist(0)]
    /\ fetch = [c \in Fetchers |-> IdleFetch]
    /\ pageBlob = {}
    /\ extractions = [i \in PageIndexes |-> 0]
    /\ recentComics = NoRecent
    /\ archive = <<>>
    /\ listing = NoListing
    /\ NothingOpen
    /\ db = TRUE

NextHome ==
    \/ loadComics
    \/ \E id \in RecordIds : touchComic(id)
    \/ \E id \in RecordIds : deleteComic(id)

SpecHome == InitHome /\ [][NextHome]_casVars

(***************************************************************************)
(* The page fetches of the reader, one action per await: the viewer calls  *)
(* onExtractPage for the page it shows and does not wait for a call in     *)
(* flight before it starts the next.                                       *)
(***************************************************************************)
\* dbStore.getPageBlob(comic.id, index): a cached blob is returned at once.
onExtractPage_get(c, index) ==
    /\ fetch[c].pc = "idle"
    /\ reader.open
    /\ index = reader.currentPage
    /\ index < reader.totalPages
    /\ IF <<reader.id, index>> \in DOMAIN dbPages
       THEN UNCHANGED fetch
       ELSE fetch' = [fetch EXCEPT ![c] = [pc |-> "load", index |-> index]]
    /\ UNCHANGED <<now, items, blobs, comicMetadata, dbComics, dbPages, nextId,
                   task, reader, created, ingests, reuses, call, pending,
                   blobHist, pageBlob, extractions>>
    /\ UNCHANGED <<listVars, arcVars>>

\* if (!page.blob) loadPage(page): loadPage starts the extraction unless the
\* page has its blob.
onExtractPage_load(c) ==
    /\ fetch[c].pc = "load"
    /\ fetch' = [fetch EXCEPT ![c].pc = IF fetch[c].index \in pageBlob
                                        THEN "save" ELSE "extract"]
    /\ UNCHANGED <<now, items, blobs, comicMetadata, dbComics, dbPages, nextId,
                   task, reader, created, ingests, reuses, call, pending,
                   blobHist, pageBlob, extractions>>
    /\ UNCHANGED <<listVars, arcVars>>

\* loadPage: archiveFile.extract() returns and page.blob is set.
loadPage_extract(c) ==
    /\ fetch[c].pc = "extract"
    /\ extractions' = [extractions EXCEPT ![fetch[c].index] = @ + 1]
    /\ pageBlob' = pageBlob \cup {fetch[c].index}
    /\ fetch' = [fetch EXCEPT ![c].pc = "save"]
    /\ UNCHANGED <<now, items, blobs, comicMetadata, dbComics, dbPages, nextId,
                   task, reader, created, ingests, reuses, call, pending,
                   blobHist>>
    /\ UNCHANGED <<listVars, arcVars>>

\* IndexedDBStore.savePageBlob: store.put of the record with the blob and
\* cachedAt.
savePageBlob(store, comicId, pageIndex, blob) ==
    Put(store, <<comicId, pageIndex>>, PageEntry(blob, now))

\* A faulty onExtractPage_save: the blob stored is the one of the page the
\* reader shows when the call gets there.
onExtractPage_save_shown(c) ==
    /\ fetch[c].pc = "save"
    /\ dbPages' = savePageBlob(dbPages, reader.id, fetch[c].index,
                               PageBlob(reader.file, reader.currentPage))
    /\ fetch' = [fetch EXCEPT ![c] = IdleFetch]
    /\ UNCHANGED <<now, items, blobs, comicMetadata, dbComics, nextId, task,
                   reader, created, ingests, reuses, call, pending, blobHist,
                   pageBlob, extractions>>
    /\ UNCHANGED <<listVars, arcVars>>

\* savePageBlob(comic.id, index, page.blob), return page.blob.
onExtractPage_save(c) ==
    /\ fetch[c].pc = "save"
    /\ dbPages' = savePageBlob(dbPages, reader.id, fetch[c].index,
                               PageBlob(reader.file, fetch[c].index))
    /\ fetch' = [fetch EXCEPT ![c] = IdleFetch]
    /\ UNCHANGED <<now, items, blobs, comicMetadata, dbComics, nextId, task,
                   reader, created, ingests, reuses, call, pending, blobHist,
                   pageBlob, extractions>>
    /\ UNCHANGED <<listVars, arcVars>>

\* savePageBlob rejects: the failure is logged and page.blob returned.
onExtractPage_saveFails(c) ==
    /\ fetch[c].pc = "save"
    /\ fetch' = [fetch EXCEPT ![c] = IdleFetch]
    /\ UNCHANGED <<now, items, blobs, comicMetadata, dbComics, dbPages, nextId,
                   task, reader, created, ingests, reuses, call, pending,
                   blobHist, pageBlob, extractions>>
    /\ UNCHANGED <<listVars, arcVars>>

\* The reader open on a comic handleFile has just stored.
InitPages ==
    LET file == [name |-> "a.cbz", bytes |-> MaxContent]
        id == ItemId(1)
        comic == ComicBook(id, 0, PageCount(file)) IN
    /\ now = 0
    /\ items = Put(Empty, id, Item(file.name, hash(file.bytes), 0, FALSE))
    /\ blobs = BlobPut(Empty, file.bytes)
    /\ comicMetadata = saveComicMetadata(Empty, comic)
    /\ dbComics = Empty
    /\ dbPages = Empty
    /\ nextId = 2
    /\ task = [t \in Tasks |-> IdleTask]
    /\ reader = setComic(comic, file)
    /\ created = Put(Empty, id, hash(file.bytes))
    /\ ingests = [c \in Contents |-> IF c = file.bytes THEN 1 ELSE 0]
    /\ reuses = [c \in Contents |-> 0]
    /\ call = [t \in Tasks |-> IdleCall]
    /\ pending = [cl \in Clients |-> IdleOp]
    /\ blobHist = [c \in Contents |-> NoHist(0)]
    /\ fetch = [c \in Fetchers |-> IdleFetch]
    /\ pageBlob = {}
    /\ extractions = [i \in PageIndexes |-> 0]
    /\ recentComics = NoRecent
    /\ archive = <<>>
    /\ listing = NoListing
    /\ NothingOpen
    /\ db = TRUE

NextPages ==
    \/ \E c \in Fetchers, index \in PageIndexes : onExtractPage_get(c, index)
    \/ \E c \in Fetchers : onExtractPage_load(c)
    \/ \E c \in Fetchers : loadPage_extract(c)
    \/ \E c \in Fetchers : onExtractPage_save(c)
    \/ \E c \in Fetchers : onExtractPage_saveFails(c)
    \/ \E pageIndex \in PageIndexes : unsubscribePage(pageIndex)

SpecPages == InitPages /\ [][NextPages]_casVars

(***************************************************************************)
(* Listing an archive.  An entry name is its sequence of UTF-16 code       *)
(* units; the names here are made of the digits 1 and 2 and the letter p   *)
(* (the extension, the same for all, is left out).                         *)
(***************************************************************************)
NameChars == {49, 50}
Stems == UNION {[1..n -> NameChars] : n \in 1..MaxName}

\* The directories an entry can lie in: none, "p/" and "__MACOSX/".
MacOsx == <<95, 95, 77, 65, 67, 79, 83, 88>>
Dirs == {<<>>, <<112, 47>>, MacOsx \o <<47>>}

\* The extensions an entry can have: ".jpg", ".PNG", ".svg" and ".txt".
Exts == {<<46, 106, 112, 103>>, <<46, 80, 78, 71>>, <<46, 115, 118, 103>>,
         <<46, 116, 120, 116>>}

\* The full paths of the files of an archive.
EntryNames == {dir \o stem \o ext : dir \in Dirs, stem \in Stems, ext \in Exts}

\* The archives: up to MaxEntries files with distinct paths, in stored order
\* (the order of Object.entries / Object.keys of the extracted listing).
ArchivesOver(names) ==
    UNION {{a \in [1..n -> names] :
               \A i, j \in 1..n : i # j => a[i] # a[j]} : n \in 1..MaxEntries}

Archives == ArchivesOver(EntryNames)

Range(seq) == {seq[i] : i \in DOMAIN seq}

IsDigit(ch) == ch \in 48..57

\* String.prototype.toLowerCase on the ASCII letters.
toLowerCase(s) ==
    [i \in DOMAIN s |-> IF s[i] \in 65..90 THEN s[i] + 32 ELSE s[i]]

\* String.prototype.lastIndexOf(ch): the 0-based index, -1 when absent.
lastIndexOf(s, ch) ==
    IF \E i \in DOMAIN s : s[i] = ch
    THEN (CHOOSE i \in DOMAIN s :
              /\ s[i] = ch
              /\ \A j \in DOMAIN s : s[j] = ch => j <= i) - 1
    ELSE -1

\* String.prototype.slice(start) and substring(start) with one 0-based
\* argument: slice counts a negative start from the end, substring takes it
\* as 0.
sliceFrom(s, start) ==
    LET from == IF start < 0
                THEN (IF Len(s) + start < 0 THEN 0 ELSE Len(s) + start)
                ELSE (IF start > Len(s) THEN Len(s) ELSE start) IN
    SubSeq(s, from + 1, Len(s))

substring(s, start) ==
    LET from == IF start < 0 THEN 0
                ELSE (IF start > Len(s) THEN Len(s) ELSE start) IN
    SubSeq(s, from + 1, Len(s))

\* s.split('.').pop(): what follows the last '.', the whole of s without one.
splitPop(s) == SubSeq(s, lastIndexOf(s, 46) + 2, Len(s))

startsWith(s, prefix) ==
    /\ Len(prefix) <= Len(s)
    /\ SubSeq(s, 1, Len(prefix)) = prefix

includes(s, part) ==
    \E i \in 0..(Len(s) - Len(part)) : SubSeq(s, i + 1, i + Len(part)) = part

\* ['.jpg', '.jpeg', '.png', '.gif', '.bmp', '.webp']
imageExtensions ==
    {<<46, 106, 112, 103>>, <<46, 106, 112, 101, 103>>,
     <<46, 112, 110, 103>>, <<46, 103, 105, 102>>, <<46, 98, 109, 112>>,
     <<46, 119, 101, 98, 112>>}

\* ArchiveManager.isImageFile.
isImageFile(filename) ==
    sliceFrom(toLowerCase(filename), lastIndexOf(filename, 46))
        \in imageExtensions

\* isImageFile of the ZIP worker: its table also holds '.svg'.
zipWorker_isImageFile(filename) ==
    LET ext == splitPop(toLowerCase(filename)) IN
    /\ ext # <<>>
    /\ (<<46>> \o ext) \in imageExtensions \cup {<<46, 115, 118, 103>>}

\* isImageFile of the RAR worker and of EnhancedZipManager.
rarWorker_isImageFile(filename) ==
    /\ substring(toLowerCase(filename), lastIndexOf(filename, 46))
           \in imageExtensions
    /\ ~startsWith(filename, MacOsx)

\* The comparison of Array.prototype.sort() without a comparator: by code
\* units, a prefix first.
RECURSIVE defaultCompare(_, _)
defaultCompare(a, b) ==
    IF a = <<>> /\ b = <<>> THEN 0
    ELSE IF a = <<>> THEN -1
    ELSE IF b = <<>> THEN 1
    ELSE IF Head(a) < Head(b) THEN -1
    ELSE IF Head(a) > Head(b) THEN 1
    ELSE defaultCompare(Tail(a), Tail(b))

\* The digits a name starts with, and the number they write.
RECURSIVE DigitRun(_)
DigitRun(a) ==
    IF a # <<>> /\ IsDigit(Head(a)) THEN <<Head(a)>> \o DigitRun(Tail(a))
    ELSE <<>>

RECURSIVE NumberOf(_)
NumberOf(digits) ==
    IF digits = <<>> THEN 0
    ELSE 10 * NumberOf(SubSeq(digits, 1, Len(digits) - 1))
         + (digits[Len(digits)] - 48)

\* The place of a character in the collation order: '_' before '.' and '/',
\* these before the digits, the digits before the letters, a capital with
\* its small letter (no two paths of EntryNames differ by case alone).
collate(ch) ==
    IF ch = 95 THEN 45
    ELSE IF ch \in 65..90 THEN ch + 32
    ELSE ch

\* a.localeCompare(b, undefined, { numeric: true }): runs of digits compare
\* as numbers, digits sort before letters.
RECURSIVE localeCompare(_, _)
localeCompare(a, b) ==
    IF a = <<>> /\ b = <<>> THEN 0
    ELSE IF a = <<>> THEN -1
    ELSE IF b = <<>> THEN 1
    ELSE IF IsDigit(Head(a)) /\ IsDigit(Head(b))
    THEN LET runA == DigitRun(a)
             runB == DigitRun(b) IN
         IF NumberOf(runA) < NumberOf(runB) THEN -1
         ELSE IF NumberOf(runA) > NumberOf(runB) THEN 1
         ELSE localeCompare(SubSeq(a, Len(runA) + 1, Len(a)),
                            SubSeq(b, Len(runB) + 1, Len(b)))
    ELSE IF collate(Head(a)) < collate(Head(b)) THEN -1
    ELSE IF collate(Head(a)) > collate(Head(b)) THEN 1
    ELSE localeCompare(Tail(a), Tail(b))

\* Array.prototype.sort() of distinct names, without a comparator.
sortDefault(S) ==
    CHOOSE seq \in [1..Cardinality(S) -> S] :
        \A i, j \in 1..Cardinality(S) :
            i < j => defaultCompare(seq[i], seq[j]) < 0

\* Array.prototype.sort of distinct names with the localeCompare comparator.
sortLocale(S) ==
    CHOOSE seq \in [1..Cardinality(S) -> S] :
        \A i, j \in 1..Cardinality(S) :
            i < j => localeCompare(seq[i], seq[j]) < 0

\* The position (0-based) of a file in the stored order of the archive.
WalkIndex(a, filename) == (CHOOSE i \in DOMAIN a : a[i] = filename) - 1

\* sorted.map((filename, index) => ({ filename, index })).
Indexed(sorted) ==
    [i \in DOMAIN sorted |-> [filename |-> sorted[i], index |-> i - 1]]

\* ArchiveManager.openArchive: the recursive walk keeps the files that
\* isImageFile accepts by their full path, sorts them with localeCompare
\* (numeric, sensitivity base) and numbers them in that order.
openArchive ==
    /\ listing' =
           [path |-> "ArchiveManager",
            entries |-> Indexed(sortLocale(
                {f \in Range(archive) : isImageFile(f)})),
            worker |-> <<>>]
    /\ UNCHANGED <<libVars, call, pending, blobHist, pageVars, recentComics,
                   archive, arcVars>>

\* The ZIP worker's handleListArchive:
\* Object.keys(data).filter(...).sort().map(...), kept as currentEntries.
currentEntries(a) ==
    Indexed(sortDefault({f \in Range(a) :
        zipWorker_isImageFile(f) /\ ~includes(f, MacOsx)}))

handleListArchive ==
    /\ listing' = [path |-> "zipWorker",
                   entries |-> currentEntries(archive),
                   worker |-> currentEntries(archive)]
    /\ UNCHANGED <<libVars, call, pending, blobHist, pageVars, recentComics,
                   archive, arcVars>>

\* The RAR worker's processListArchive: every file gets its index during the
\* walk, then the list is filtered and sorted with localeCompare (numeric).
archiveEntries(a) ==
    LET sorted == sortLocale({f \in Range(a) : rarWorker_isImageFile(f)}) IN
    [i \in DOMAIN sorted |->
        [filename |-> sorted[i], index |-> WalkIndex(a, sorted[i])]]

processListArchive ==
    /\ listing' = [path |-> "rarWorker",
                   entries |-> archiveEntries(archive),
                   worker |-> archiveEntries(archive)]
    /\ UNCHANGED <<libVars, call, pending, blobHist, pageVars, recentComics,
                   archive, arcVars>>

\* EnhancedZipManager.openComic: the entries of the ZIP worker (a .cbz or
\* .zip file) or of the walk over libarchive's listing (a .cbr or .rar
\* file), filtered with isImageFile, sorted again with localeCompare
\* (numeric) and numbered in that order as session.pages.
openComic ==
    \E archiveType \in {"zip", "rar"} :
        LET entries == IF archiveType = "zip"
                       THEN {e.filename : e \in Range(currentEntries(archive))}
                       ELSE Range(archive)
            imageEntries ==
                sortLocale({f \in entries : rarWorker_isImageFile(f)}) IN
        /\ listing' = [path |-> "EnhancedZipManager",
                       entries |-> Indexed(imageEntries),
                       worker |-> IF archiveType = "zip"
                                  THEN currentEntries(archive)
                                  ELSE <<>>]
        /\ UNCHANGED <<libVars, call, pending, blobHist, pageVars,
                       recentComics, archive, arcVars>>

\* The ZIP worker's handleExtractPage: the file it extracts for an index is
\* currentEntries[index].filename; <<>> stands for the error 'Archive not
\* loaded or invalid page index'.
handleExtractPage(index) ==
    IF index + 1 \in DOMAIN listing.worker
    THEN listing.worker[index + 1].filename
    ELSE <<>>

InitListing ==
    /\ now = 0
    /\ items = Empty
    /\ blobs = Empty
    /\ comicMetadata = Empty
    /\ dbComics = Empty
    /\ dbPages = Empty
    /\ nextId = 1
    /\ task = [t \in Tasks |-> IdleTask]
    /\ reader = NoReader
    /\ created = Empty
    /\ ingests = [c \in Contents |-> 0]
    /\ reuses = [c \in Contents |-> 0]
    /\ call = [t \in Tasks |-> IdleCall]
    /\ pending = [cl \in Clients |-> IdleOp]
    /\ blobHist = [c \in Contents |-> NoHist(0)]
    /\ fetch = [c \in Fetchers |-> IdleFetch]
    /\ pageBlob = {}
    /\ extractions = [i \in PageIndexes |-> 0]
    /\ recentComics = NoRecent
    /\ archive \in Archives
    /\ listing = NoListing
    /\ NothingOpen
    /\ db = TRUE

NextListing ==
    \/ openArchive
    \/ handleListArchive
    \/ processListArchive
    \/ openComic

SpecListing == InitListing /\ [][NextListing]_casVars

(***************************************************************************)
(* ArchiveManager.loadPage on the descriptors openArchive returned, one    *)
(* action per await; callers do not wait for one another.                  *)
(***************************************************************************)
\* ArchiveManager.getMimeType: the table by extension, 'image/jpeg' for an
\* extension the table does not hold.
getMimeType(filename) ==
    LET extension == sliceFrom(toLowerCase(filename),
                               lastIndexOf(filename, 46)) IN
    IF extension \in {<<46, 106, 112, 103>>, <<46, 106, 112, 101, 103>>}
    THEN "image/jpeg"
    ELSE IF extension = <<46, 112, 110, 103>> THEN "image/png"
    ELSE IF extension = <<46, 103, 105, 102>> THEN "image/gif"
    ELSE IF extension = <<46, 98, 109, 112>> THEN "image/bmp"
    ELSE IF extension = <<46, 119, 101, 98, 112>> THEN "image/webp"
    ELSE "image/jpeg"

\* The descriptors of openArchive: index, filename and the handle into the
\* archive (entry); blob and its type are set by loadPage.
Descriptors(a, handles) ==
    LET sorted == sortLocale({f \in Range(a) : isImageFile(f)}) IN
    [i \in DOMAIN sorted |->
        [index |-> i - 1, filename |-> sorted[i], entry |-> handles,
         blob |-> <<>>, type |-> ""]]

\* new Blob([extractedFile], { type: mimeType }): the bytes of the entry.
ExtractedBlob(page) == <<page.filename>>

\* A faulty loadPage: it extracts whether or not the page has its blob.
loadPage_again(c, index) ==
    /\ loading[c].pc = "idle"
    /\ index + 1 \in DOMAIN pages
    /\ extractions[index] < MaxExtract
    /\ loading' = [loading EXCEPT
                       ![c] = [pc |-> "extract", index |-> index,
                               outcome |-> ""]]
    /\ UNCHANGED <<libVars, call, pending, blobHist, fetch, pageBlob,
                   extractions, listVars, pages, db, mgrVars,
                   upload, sessVars>>

\* loadPage up to its await: a page that has its blob returns at once, a
\* page without its handle throws, otherwise archiveFile.extract() starts.
loadPage(c, index) ==
    /\ loading[c].pc = "idle"
    /\ index + 1 \in DOMAIN pages
    /\ IF pages[index + 1].blob # <<>>
       THEN loading' = [loading EXCEPT
                           ![c] = [pc |-> "idle", index |-> index,
                                   outcome |-> "returned"]]
       ELSE IF ~pages[index + 1].entry
       THEN loading' = [loading EXCEPT
                           ![c] = [pc |-> "idle", index |-> index,
                                   outcome |-> "failed"]]
       ELSE /\ extractions[index] < MaxExtract
            /\ loading' = [loading EXCEPT
                               ![c] = [pc |-> "extract", index |-> index,
                                       outcome |-> ""]]
    /\ UNCHANGED <<libVars, call, pending, blobHist, fetch, pageBlob,
                   extractions, listVars, pages, db, mgrVars,
                   upload, sessVars>>

\* extract() resolves: page.blob is the new Blob with the type of
\* getMimeType(page.filename).
loadPage_extracted(c) ==
    /\ loading[c].pc = "extract"
    /\ LET i == loading[c].index + 1 IN
       pages' = [pages EXCEPT
                    ![i].blob = ExtractedBlob(pages[i]),
                    ![i].type = getMimeType(pages[i].filename)]
    /\ extractions' = [extractions EXCEPT ![loading[c].index] = @ + 1]
    /\ loading' = [loading EXCEPT ![c].pc = "idle",
                                  ![c].outcome = "extracted"]
    /\ UNCHANGED <<libVars, call, pending, blobHist, fetch, pageBlob,
                   listVars, db, mgrVars, upload, sessVars>>

\* extract() rejects: loadPage throws 'Failed to extract page: ...'.
loadPage_extractFails(c) ==
    /\ loading[c].pc = "extract"
    /\ loading' = [loading EXCEPT ![c].pc = "idle", ![c].outcome = "failed"]
    /\ UNCHANGED <<libVars, call, pending, blobHist, fetch, pageBlob,
                   extractions, listVars, pages, db, mgrVars,
                   upload, sessVars>>

\* The archives of the loadPage runs: files in the root directory with a
\* base name of one character, no more of them than page indexes, stored in
\* the order of their names (openArchive sorts them whatever the order).
LoadArchives ==
    {a \in ArchivesOver({f \in EntryNames : Len(f) = 5}) :
        /\ Len(a) <= MaxContent
        /\ a = sortDefault(Range(a))}

\* openArchive has returned the descriptors of an archive; the descriptors
\* have their handles, or were restored without them.
InitLoad ==
    /\ now = 0
    /\ items = Empty
    /\ blobs = Empty
    /\ comicMetadata = Empty
    /\ dbComics = Empty
    /\ dbPages = Empty
    /\ nextId = 1
    /\ task = [t \in Tasks |-> IdleTask]
    /\ reader = NoReader
    /\ created = Empty
    /\ ingests = [c \in Contents |-> 0]
    /\ reuses = [c \in Contents |-> 0]
    /\ call = [t \in Tasks |-> IdleCall]
    /\ pending = [cl \in Clients |-> IdleOp]
    /\ blobHist = [c \in Contents |-> NoHist(0)]
    /\ fetch = [c \in Fetchers |-> IdleFetch]
    /\ pageBlob = {}
    /\ extractions = [i \in PageIndexes |-> 0]
    /\ recentComics = NoRecent
    /\ archive \in LoadArchives
    /\ listing = NoListing
    /\ \E handles \in BOOLEAN : pages = Descriptors(archive, handles)
    /\ db = TRUE
    /\ messageId = 0
    /\ requests = <<>>
    /\ upload = NoUpload
    /\ loading = [c \in Fetchers |-> IdleLoad]
    /\ currentSession = NoSession
    /\ pageCache = Empty
    /\ libarchive = NoLibarchive
    /\ worker = NoWorker
    /\ pendingRequests = {}
    /\ op = [c \in Fetchers |-> NoOp]

NextLoad ==
    \/ \E c \in Fetchers, index \in PageIndexes : loadPage(c, index)
    \/ \E c \in Fetchers : loadPage_extracted(c)
    \/ \E c \in Fetchers : loadPage_extractFails(c)

SpecLoad == InitLoad /\ [][NextLoad]_casVars

(***************************************************************************)
(* EnhancedZipManager: one session at a time over the ZIP worker of        *)
(* zipManager.ts or a libarchive.js instance.  One action per await of the *)
(* main thread and of the worker; callers do not wait for one another.     *)
(* An archive is the number of its image entries; the entries of two       *)
(* archives have the same names (the i-th page of each is named alike), so *)
(* a name looked up in another archive is found when it has that many.     *)
(***************************************************************************)
ComicNames == {"a.cbz", "b.cbr", "n.txt"}
ComicFiles ==
    [name : {n \in ComicNames : n # "n.txt"}, images : 0..MaxPages]
    \cup {[name |-> "n.txt", images |-> 0]}

detectArchiveType(filename) ==
    CASE filename = "a.cbz" -> "zip"
      [] filename = "b.cbr" -> "rar"
      [] OTHER -> "unknown"

\* The bytes of the index-th image entry of a file.
EntryBytes(file, index) == <<file.name, file.images, index>>

\* The session openComic creates: id is `${Date.now()}_${file.name}`.
Session(file, t) ==
    [open |-> TRUE, id |-> <<t, file.name>>, file |-> file,
     pages |-> file.images, currentPageIndex |-> 0,
     archiveType |-> detectArchiveType(file.name)]

cacheKey(session, pageIndex) == <<session.id, pageIndex>>

\* The promise of a call settles: "resolved", "null" (resolved with null),
\* "rejected", or "failed" for a getPage rejected because its extraction
\* failed.  A getPage that settles after its await leaves its page index to
\* be read with the outcome.
Settled(c, outcome) == [op EXCEPT ![c] = [NoOp EXCEPT !.outcome = outcome]]

SettledAt(c, outcome) ==
    [op EXCEPT ![c] = [NoOp EXCEPT !.outcome = outcome,
                                   !.index = op[c].index]]

\* ArchiveManager.dispose of zipManager.ts: the workers are terminated and
\* pendingRequests cleared; the promises of the requests are left as they
\* are.
dispose == NoWorker

\* closeComic with a session open: the manager is disposed, the libarchive
\* instance dropped, the cache cleared and the session set to null.
closeComic ==
    /\ currentSession.open
    /\ worker' = dispose
    /\ pendingRequests' = {}
    /\ libarchive' = [libarchive EXCEPT !.libarchiveInstance = NoComicFile]
    /\ pageCache' = Empty
    /\ currentSession' = NoSession
    /\ UNCHANGED <<otherVars, op>>

\* ArchiveManager.sendMessage after getWorkerForFile / on currentWorker: the
\* request is registered and the message posted to the worker.
Message(c, type, file, index) ==
    [id |-> c, type |-> type, file |-> file, index |-> index, blob |-> <<>>]

sendMessage(w, message) ==
    [w EXCEPT !.alive = TRUE, !.inbox = Append(@, message)]

\* openComic up to its first await on the archive: an open session is closed
\* first; a .cbz / .zip file is sent to the ZIP worker (LIST_ARCHIVE), a
\* .cbr / .rar file waits for libarchive.js, another file is refused.
openComic_begin(c, file) ==
    /\ op[c].pc = "idle"
    /\ currentSession' = NoSession
    /\ pageCache' = IF currentSession.open THEN Empty ELSE pageCache
    /\ libarchive' = IF currentSession.open
                     THEN [libarchive EXCEPT !.libarchiveInstance = NoComicFile]
                     ELSE libarchive
    /\ LET w == IF currentSession.open THEN dispose ELSE worker
           p == IF currentSession.open THEN {} ELSE pendingRequests
           archiveType == detectArchiveType(file.name) IN
       CASE archiveType = "zip" ->
              /\ worker' = sendMessage(w, Message(c, "LIST_ARCHIVE", file, 0))
              /\ pendingRequests' = p \cup {c}
              /\ op' = [op EXCEPT ![c] = [NoOp EXCEPT !.pc = "list",
                                                      !.file = file]]
         [] archiveType = "rar" ->
              /\ worker' = w
              /\ pendingRequests' = p
              /\ op' = [op EXCEPT ![c] = [NoOp EXCEPT !.pc = "rarLoad",
                                                      !.file = file]]
         [] OTHER ->
              /\ worker' = w
              /\ pendingRequests' = p
              /\ op' = Settled(c, "rejected")
    /\ UNCHANGED otherVars

\* The image entries openComic keeps of a listing, and the end of openComic:
\* without an image it throws, otherwise the session becomes current.
openComic_end(c, file) ==
    IF file.images = 0
    THEN /\ op' = Settled(c, "rejected")
         /\ UNCHANGED currentSession
    ELSE /\ op' = Settled(c, "resolved")
         /\ currentSession' = Session(file, now)

\* handleWorkerMessage for the request of caller c: the response at the head
\* of the worker's outgoing messages.
Response(c) ==
    /\ worker.outbox # <<>>
    /\ Head(worker.outbox).id = c
    /\ c \in pendingRequests

\* openComic after listArchive: ARCHIVE_LISTED gives the entries, ERROR
\* rejects.
openComic_listed(c) ==
    /\ op[c].pc = "list"
    /\ Response(c)
    /\ worker' = [worker EXCEPT !.outbox = Tail(@)]
    /\ pendingRequests' = pendingRequests \ {c}
    /\ IF Head(worker.outbox).type = "ERROR"
       THEN /\ op' = Settled(c, "rejected")
            /\ UNCHANGED currentSession
       ELSE openComic_end(c, Head(worker.outbox).file)
    /\ UNCHANGED <<otherVars, pageCache, libarchive>>

\* openComic after loadLibarchive: without libarchive.js a RAR file is
\* refused, with it Archive.open(file) is called.
openComic_rarLoad(c) ==
    /\ op[c].pc = "rarLoad"
    /\ op' = IF libarchive.isLibarchiveLoaded
             THEN [op EXCEPT ![c].pc = "rarOpen"]
             ELSE Settled(c, "rejected")
    /\ UNCHANGED <<otherVars, currentSession, pageCache, libarchive, worker,
                   pendingRequests>>

\* Archive.open(file) resolves: the instance is kept and getFilesObject
\* called; or it rejects.
openComic_rarOpen(c) ==
    /\ op[c].pc = "rarOpen"
    /\ \E opened \in BOOLEAN :
        IF opened
        THEN /\ libarchive' = [libarchive EXCEPT
                                  !.libarchiveInstance = op[c].file]
             /\ op' = [op EXCEPT ![c].pc = "rarList"]
        ELSE /\ op' = Settled(c, "rejected")
             /\ UNCHANGED libarchive
    /\ UNCHANGED <<otherVars, currentSession, pageCache, worker,
                   pendingRequests>>

\* getFilesObject() of the instance resolves with the entries of the file
\* that was opened.
openComic_rarListed(c) ==
    /\ op[c].pc = "rarList"
    /\ openComic_end(c, op[c].file)
    /\ UNCHANGED <<otherVars, pageCache, libarchive, worker, pendingRequests>>

\* getPage up to its await: no session and an index out of range throw, a
\* cached page is returned, otherwise the extraction is asked of the ZIP
\* worker (EXTRACT_PAGE with the index) or of the libarchive instance.
getPage(c, pageIndex) ==
    /\ op[c].pc = "idle"
    /\ IF ~currentSession.open
       THEN /\ op' = Settled(c, "rejected")
            /\ UNCHANGED <<worker, pendingRequests>>
       ELSE IF pageIndex < 0 \/ pageIndex >= currentSession.pages
       THEN /\ op' = Settled(c, "rejected")
            /\ UNCHANGED <<worker, pendingRequests>>
       ELSE IF cacheKey(currentSession, pageIndex) \in DOMAIN pageCache
       THEN /\ op' = Settled(c, "resolved")
            /\ UNCHANGED <<worker, pendingRequests>>
       ELSE IF currentSession.archiveType = "zip"
       THEN IF ~worker.alive
            THEN /\ op' = Settled(c, "rejected")
                 /\ UNCHANGED <<worker, pendingRequests>>
            ELSE /\ worker' = sendMessage(worker,
                                 Message(c, "EXTRACT_PAGE", NoComicFile,
                                         pageIndex))
                 /\ pendingRequests' = pendingRequests \cup {c}
                 /\ op' = [op EXCEPT
                              ![c] = [NoOp EXCEPT
                                  !.pc = "extract",
                                  !.index = pageIndex,
                                  !.key = cacheKey(currentSession, pageIndex),
                             !.pageInfo = <<currentSession.file,
                                            pageIndex>>]]
       ELSE IF libarchive.libarchiveInstance = NoComicFile
       THEN /\ op' = Settled(c, "rejected")
            /\ UNCHANGED <<worker, pendingRequests>>
       ELSE /\ op' = [op EXCEPT
                         ![c] = [NoOp EXCEPT
                             !.pc = "rarExtract",
                             !.file = libarchive.libarchiveInstance,
                             !.index = pageIndex,
                             !.key = cacheKey(currentSession, pageIndex),
                             !.pageInfo = <<currentSession.file,
                                            pageIndex>>]]
            /\ UNCHANGED <<worker, pendingRequests>>
    /\ UNCHANGED <<otherVars, currentSession, pageCache, libarchive>>

\* getPage after the extraction: the page ({ ...pageInfo, blob, url }, with
\* the pageInfo read before the await) is cached under the key computed
\* before the await and the index written to this.currentSession; with no
\* session that assignment throws and getPage rejects.
getPage_end(c, blob) ==
    /\ pageCache' = Put(pageCache, op[c].key,
                        [pageInfo |-> op[c].pageInfo, blob |-> blob])
    /\ IF currentSession.open
       THEN /\ currentSession' = [currentSession EXCEPT
                                     !.currentPageIndex = op[c].index]
            /\ op' = SettledAt(c, "resolved")
       ELSE /\ op' = SettledAt(c, "rejected")
            /\ UNCHANGED currentSession

\* A faulty getPage_extracted: an ERROR response also empties the page cache.
getPage_extracted_clears(c) ==
    /\ op[c].pc = "extract"
    /\ Response(c)
    /\ worker' = [worker EXCEPT !.outbox = Tail(@)]
    /\ pendingRequests' = pendingRequests \ {c}
    /\ IF Head(worker.outbox).type = "ERROR"
       THEN /\ op' = SettledAt(c, "failed")
            /\ pageCache' = Empty
            /\ UNCHANGED currentSession
       ELSE getPage_end(c, Head(worker.outbox).blob)
    /\ UNCHANGED <<otherVars, libarchive>>

\* getPage after extractPage: PAGE_EXTRACTED gives the blob, ERROR rejects.
getPage_extracted(c) ==
    /\ op[c].pc = "extract"
    /\ Response(c)
    /\ worker' = [worker EXCEPT !.outbox = Tail(@)]
    /\ pendingRequests' = pendingRequests \ {c}
    /\ IF Head(worker.outbox).type = "ERROR"
       THEN /\ op' = SettledAt(c, "failed")
            /\ UNCHANGED <<currentSession, pageCache>>
       ELSE getPage_end(c, Head(worker.outbox).blob)
    /\ UNCHANGED <<otherVars, libarchive>>

\* getPage after extractRarPage: getFilesObject() and extract() of the
\* instance read at the call have resolved with the entry of that name, or
\* the name is not in that archive, or the extraction failed.
getPage_rarExtracted(c) ==
    /\ op[c].pc = "rarExtract"
    /\ \E extracted \in BOOLEAN :
        IF extracted /\ op[c].index < op[c].file.images
        THEN getPage_end(c, EntryBytes(op[c].file, op[c].index))
        ELSE /\ op' = SettledAt(c, "failed")
             /\ UNCHANGED <<currentSession, pageCache>>
    /\ UNCHANGED <<otherVars, libarchive, worker, pendingRequests>>

\* nextPage: null without a session or on the last page, else getPage of the
\* next index.
nextPage(c) ==
    IF ~currentSession.open
       \/ currentSession.currentPageIndex + 1 >= currentSession.pages
    THEN /\ op[c].pc = "idle"
         /\ op' = Settled(c, "null")
         /\ UNCHANGED <<otherVars, currentSession, pageCache, libarchive,
                        worker, pendingRequests>>
    ELSE getPage(c, currentSession.currentPageIndex + 1)

\* previousPage: null without a session or on the first page, else getPage
\* of the previous index.
previousPage(c) ==
    IF ~currentSession.open \/ currentSession.currentPageIndex - 1 < 0
    THEN /\ op[c].pc = "idle"
         /\ op' = Settled(c, "null")
         /\ UNCHANGED <<otherVars, currentSession, pageCache, libarchive,
                        worker, pendingRequests>>
    ELSE getPage(c, currentSession.currentPageIndex - 1)

\* goToPage is getPage.
goToPage(c, pageIndex) == getPage(c, pageIndex)

\* The ZIP worker's message listener up to the first await of the handler:
\* LIST_ARCHIVE waits for file.arrayBuffer(); a message of another type than
\* the two throws, and EXTRACT_PAGE throws without an archive or an entry of
\* that index, which is answered with ERROR; otherwise EXTRACT_PAGE starts
\* unzip on currentArchiveData for currentEntries[index].
onmessage ==
    /\ worker.alive
    /\ worker.inbox # <<>>
    /\ LET m == Head(worker.inbox) IN
       IF m.type = "LIST_ARCHIVE"
       THEN worker' = [worker EXCEPT
                          !.inbox = Tail(@),
                          !.running = @ \cup {[m EXCEPT !.blob = "read"]}]
       ELSE IF \/ m.type # "EXTRACT_PAGE"
               \/ worker.currentArchiveData = NoComicFile
               \/ m.index \notin 0..(worker.currentEntries.images - 1)
       THEN worker' = [worker EXCEPT
                          !.inbox = Tail(@),
                          !.outbox = Append(@, [m EXCEPT !.type = "ERROR"])]
       ELSE worker' = [worker EXCEPT
                          !.inbox = Tail(@),
                          !.running = @ \cup
                              {[m EXCEPT !.file = worker.currentArchiveData]}]
    /\ UNCHANGED <<otherVars, currentSession, pageCache, libarchive,
                   pendingRequests, op>>

\* handleListArchive after file.arrayBuffer(): currentArchiveData is the
\* file's and unzip starts on it.
handleListArchive_read(m) ==
    /\ worker.alive
    /\ m \in worker.running
    /\ m.type = "LIST_ARCHIVE"
    /\ m.blob = "read"
    /\ worker' = [worker EXCEPT
                     !.currentArchiveData = m.file,
                     !.running = (@ \ {m}) \cup {[m EXCEPT !.blob = "unzip"]}]
    /\ UNCHANGED <<otherVars, currentSession, pageCache, libarchive,
                   pendingRequests, op>>

\* A faulty unzip callback of handleListArchive: an error is answered with
\* nothing.
handleListArchive_unzip_silent(m) ==
    /\ worker.alive
    /\ m \in worker.running
    /\ m.type = "LIST_ARCHIVE"
    /\ m.blob = "unzip"
    /\ \E err \in BOOLEAN :
        worker' = IF err
                  THEN [worker EXCEPT !.running = @ \ {m}]
                  ELSE [worker EXCEPT
                           !.currentEntries = m.file,
                           !.running = @ \ {m},
                           !.outbox = Append(@,
                               [m EXCEPT !.type = "ARCHIVE_LISTED",
                                         !.blob = <<>>])]
    /\ UNCHANGED <<otherVars, currentSession, pageCache, libarchive,
                   pendingRequests, op>>

\* The unzip callback of handleListArchive: an error is answered with ERROR,
\* otherwise currentEntries are the image entries and ARCHIVE_LISTED is
\* posted.
handleListArchive_unzip(m) ==
    /\ worker.alive
    /\ m \in worker.running
    /\ m.type = "LIST_ARCHIVE"
    /\ m.blob = "unzip"
    /\ \E err \in BOOLEAN :
        worker' = IF err
                  THEN [worker EXCEPT
                           !.running = @ \ {m},
                           !.outbox = Append(@, [m EXCEPT !.type = "ERROR",
                                                          !.blob = <<>>])]
                  ELSE [worker EXCEPT
                           !.currentEntries = m.file,
                           !.running = @ \ {m},
                           !.outbox = Append(@,
                               [m EXCEPT !.type = "ARCHIVE_LISTED",
                                         !.blob = <<>>])]
    /\ UNCHANGED <<otherVars, currentSession, pageCache, libarchive,
                   pendingRequests, op>>

\* The unzip callback of handleExtractPage: an error, or no file of the
\* entry's name in the data, is answered with ERROR; otherwise the blob of
\* data[entry.filename] is posted with PAGE_EXTRACTED.
handleExtractPage_unzip(m) ==
    /\ worker.alive
    /\ m \in worker.running
    /\ m.type = "EXTRACT_PAGE"
    /\ \E err \in BOOLEAN :
        worker' = IF err \/ m.index >= m.file.images
                  THEN [worker EXCEPT
                           !.running = @ \ {m},
                           !.outbox = Append(@, [m EXCEPT !.type = "ERROR"])]
                  ELSE [worker EXCEPT
                           !.running = @ \ {m},
                           !.outbox = Append(@,
                               [m EXCEPT
                                   !.type = "PAGE_EXTRACTED",
                                   !.blob = EntryBytes(m.file, m.index)])]
    /\ UNCHANGED <<otherVars, currentSession, pageCache, libarchive,
                   pendingRequests, op>>

\* EnhancedZipManager after construction; libarchive.js has loaded or has
\* failed to load.
InitSession ==
    /\ now = 0
    /\ items = Empty
    /\ blobs = Empty
    /\ comicMetadata = Empty
    /\ dbComics = Empty
    /\ dbPages = Empty
    /\ nextId = 1
    /\ task = [t \in Tasks |-> IdleTask]
    /\ reader = NoReader
    /\ created = Empty
    /\ ingests = [c \in Contents |-> 0]
    /\ reuses = [c \in Contents |-> 0]
    /\ call = [t \in Tasks |-> IdleCall]
    /\ pending = [cl \in Clients |-> IdleOp]
    /\ blobHist = [c \in Contents |-> NoHist(0)]
    /\ fetch = [c \in Fetchers |-> IdleFetch]
    /\ pageBlob = {}
    /\ extractions = [i \in PageIndexes |-> 0]
    /\ recentComics = NoRecent
    /\ archive = <<>>
    /\ listing = NoListing
    /\ pages = <<>>
    /\ loading = [c \in Fetchers |-> IdleLoad]
    /\ currentSession = NoSession
    /\ pageCache = Empty
    /\ \E loaded \in BOOLEAN :
        libarchive = [NoLibarchive EXCEPT !.isLibarchiveLoaded = loaded]
    /\ worker = NoWorker
    /\ pendingRequests = {}
    /\ op = [c \in Fetchers |-> NoOp]
    /\ db = TRUE
    /\ messageId = 0
    /\ requests = <<>>
    /\ upload = NoUpload

NextSession ==
    \/ closeComic
    \/ \E c \in Fetchers, file \in ComicFiles : openComic_begin(c, file)
    \/ \E c \in Fetchers : openComic_listed(c)
    \/ \E c \in Fetchers : openComic_rarLoad(c)
    \/ \E c \in Fetchers : openComic_rarOpen(c)
    \/ \E c \in Fetchers : openComic_rarListed(c)
    \/ \E c \in Fetchers, pageIndex \in (-1)..MaxPages : goToPage(c, pageIndex)
    \/ \E c \in Fetchers : getPage_extracted(c)
    \/ \E c \in Fetchers : getPage_rarExtracted(c)
    \/ \E c \in Fetchers : nextPage(c)
    \/ \E c \in Fetchers : previousPage(c)
    \/ onmessage
    \/ \E m \in worker.running : handleListArchive_read(m)
    \/ \E m \in worker.running : handleListArchive_unzip(m)
    \/ \E m \in worker.running : handleExtractPage_unzip(m)

SpecSession == InitSession /\ [][NextSession]_casVars

\* The same with the scheduling of the browser: the worker's event loop runs
\* every message posted to it and every callback of a finished unzip, the
\* main thread runs the handler of every response posted to it, and a
\* libarchive call in flight ends.  The calls of the page are under no
\* obligation.
SessionFairness ==
    /\ WF_casVars(onmessage)
    /\ WF_casVars(\E m \in worker.running : handleListArchive_read(m))
    /\ WF_casVars(\E m \in worker.running : handleListArchive_unzip(m))
    /\ WF_casVars(\E m \in worker.running : handleExtractPage_unzip(m))
    /\ \A c \in Fetchers :
           /\ WF_casVars(openComic_listed(c))
           /\ WF_casVars(openComic_rarLoad(c))
           /\ WF_casVars(openComic_rarOpen(c))
           /\ WF_casVars(openComic_rarListed(c))
           /\ WF_casVars(getPage_extracted(c))
           /\ WF_casVars(getPage_rarExtracted(c))

SpecSessionLive == SpecSession /\ SessionFairness

(***************************************************************************)
(* ArchiveManager of zipManager.ts with its ZIP worker: the requests, their *)
(* ids and their promises.                                                 *)
(***************************************************************************)
ZipFiles == {file \in ComicFiles : detectArchiveType(file.name) = "zip"}

\* The promise sendMessage returns for the request id: how often resolve or
\* reject was called on it, and the id of the response that called it.
Promise(id) == [id |-> id, calls |-> 0, by |-> 0]

\* A faulty pendingRequests.delete(id): the entry stays.
deleteRequest_keeps(p, id) == p

\* this.pendingRequests.delete(id).
deleteRequest(p, id) == p \ {id}

\* request.resolve / request.reject: called on the promise registered under
\* the id, the last one sendMessage set for it.
settle(log, id) ==
    LET last == CHOOSE i \in DOMAIN log :
                    /\ log[i].id = id
                    /\ \A j \in DOMAIN log : log[j].id = id => j <= i
    IN [log EXCEPT ![last].calls = @ + 1, ![last].by = id]

\* sendMessage(message, worker): the id is `msg-${++this.messageId}`, the
\* promise is registered under it and the message posted.
request(type, file, index) ==
    /\ messageId < MaxMessages
    /\ messageId' = messageId + 1
    /\ pendingRequests' = pendingRequests \cup {messageId'}
    /\ requests' = Append(requests, Promise(messageId'))
    /\ worker' = sendMessage(worker, Message(messageId', type, file, index))
    /\ UNCHANGED <<libVars, call, pending, blobHist, pageVars, listVars, pages,
                   loading, db, upload, currentSession, pageCache, libarchive,
                   op>>

\* listArchive(file): getWorkerForFile creates the worker when there is none.
listArchive(file) == request("LIST_ARCHIVE", file, 0)

\* extractPage(index): throws without a current worker.
extractPage(index) ==
    /\ worker.alive
    /\ request("EXTRACT_PAGE", NoComicFile, index)

\* A message of a type the worker's listener has no case for.
postOther ==
    /\ worker.alive
    /\ request("OTHER", NoComicFile, 0)

\* handleWorkerMessage: the response at the head of the messages the worker
\* posted; a response for an id that is not pending is logged and dropped.
handleWorkerMessage ==
    /\ worker.outbox # <<>>
    /\ worker' = [worker EXCEPT !.outbox = Tail(@)]
    /\ LET id == Head(worker.outbox).id IN
       IF id \in pendingRequests
       THEN /\ pendingRequests' = deleteRequest(pendingRequests, id)
            /\ requests' = settle(requests, id)
       ELSE UNCHANGED <<pendingRequests, requests>>
    /\ UNCHANGED <<libVars, call, pending, blobHist, pageVars, listVars, pages,
                   loading, db, messageId, upload, currentSession, pageCache,
                   libarchive, op>>

\* dispose(): the workers are terminated and pendingRequests cleared.  The
\* responses a worker had posted before are still delivered, or dropped with
\* the worker.
dispose_terminate(delivered) ==
    /\ worker.alive
    /\ worker' = [dispose EXCEPT
                     !.outbox = IF delivered THEN worker.outbox ELSE <<>>]
    /\ pendingRequests' = {}
    /\ UNCHANGED <<libVars, call, pending, blobHist, pageVars, listVars, pages,
                   loading, db, mgrVars, upload, currentSession, pageCache,
                   libarchive, op>>

InitWorker ==
    /\ now = 0
    /\ items = Empty
    /\ blobs = Empty
    /\ comicMetadata = Empty
    /\ dbComics = Empty
    /\ dbPages = Empty
    /\ nextId = 1
    /\ task = [t \in Tasks |-> IdleTask]
    /\ reader = NoReader
    /\ created = Empty
    /\ ingests = [c \in Contents |-> 0]
    /\ reuses = [c \in Contents |-> 0]
    /\ call = [t \in Tasks |-> IdleCall]
    /\ pending = [cl \in Clients |-> IdleOp]
    /\ blobHist = [c \in Contents |-> NoHist(0)]
    /\ fetch = [c \in Fetchers |-> IdleFetch]
    /\ pageBlob = {}
    /\ extractions = [i \in PageIndexes |-> 0]
    /\ recentComics = NoRecent
    /\ archive = <<>>
    /\ listing = NoListing
    /\ NothingOpen
    /\ db = TRUE

NextWorker ==
    \/ \E file \in ZipFiles : listArchive(file)
    \/ \E index \in (-1)..MaxPages : extractPage(index)
    \/ postOther
    \/ handleWorkerMessage
    \/ \E delivered \in BOOLEAN : dispose_terminate(delivered)
    \/ onmessage
    \/ \E m \in worker.running : handleListArchive_read(m)
    \/ \E m \in worker.running : handleListArchive_unzip(m)
    \/ \E m \in worker.running : handleExtractPage_unzip(m)

SpecWorker == InitWorker /\ [][NextWorker]_casVars

\* The worker's event loop runs every message posted to it and every
\* callback of a finished unzip or read.
WorkerFairness ==
    /\ WF_casVars(onmessage)
    /\ WF_casVars(\E m \in worker.running : handleListArchive_read(m))
    /\ WF_casVars(\E m \in worker.running : handleListArchive_unzip(m))
    /\ WF_casVars(\E m \in worker.running : handleExtractPage_unzip(m))

SpecWorkerLive == SpecWorker /\ WorkerFairness

(***************************************************************************)
(* UploadService of services/logger.ts: processFileList, processDrop,      *)
(* processFiles (one step per await) and cancel.                           *)
(***************************************************************************)
\* The lists a file input or a drop can hand over.
FileLists == UNION {[1..k -> Files] : k \in 0..MaxList}

\* The comic files of a list, in the order of the list.
comicFiles(fileList) == SelectSeq(fileList, LAMBDA f : isComicFile(f.name))

\* processFiles at the head of its loop with index i, the progress reported
\* last being current: it breaks when isCancelled is set, returns past the
\* last file, and otherwise awaits the save of files[i].
processFiles_loop(u, b, files, i, current) ==
    [u EXCEPT !.batch[b] =
        [pc |-> IF i < Len(files) /\ ~u.isCancelled THEN "save" ELSE "idle",
         files |-> files, i |-> i, current |-> current,
         cancelled |-> @.cancelled]]

StartBatch(u, b) ==
    [u EXCEPT !.isCancelled = FALSE, !.batch[b] = IdleBatch]

processFileList(b, fileList) ==
    /\ upload.batch[b].pc = "idle"
    /\ upload' = processFiles_loop(StartBatch(upload, b), b,
                                   comicFiles(fileList), 0, 0)
    /\ UNCHANGED <<libVars, call, pending, blobHist, pageVars, listVars, pages,
                   loading, db, mgrVars, sessVars>>

\* processDrop up to its first await: the entries of the drop are scanned.
processDrop(b, fileList) ==
    /\ upload.batch[b].pc = "idle"
    /\ upload' = [StartBatch(upload, b) EXCEPT
                    !.batch[b].pc = "scan",
                    !.batch[b].files = comicFiles(fileList)]
    /\ UNCHANGED <<libVars, call, pending, blobHist, pageVars, listVars, pages,
                   loading, db, mgrVars, sessVars>>

\* The scan is over: processFiles starts on the comic files found, or the
\* scan was rejected and processDrop throws.
processDrop_scanned(b, ok) ==
    /\ upload.batch[b].pc = "scan"
    /\ upload' = IF ok
                 THEN processFiles_loop(upload, b, upload.batch[b].files, 0, 0)
                 ELSE [upload EXCEPT !.batch[b].pc = "idle"]
    /\ UNCHANGED <<libVars, call, pending, blobHist, pageVars, listVars, pages,
                   loading, db, mgrVars, sessVars>>

\* The awaited comicStorage.saveFile(files[i]) settles: onProgress is called
\* with current = i + 1 and the loop goes on; a rejected save ends the call.
processFiles_saved(b, ok) ==
    LET o == upload.batch[b]
        file == o.files[o.i + 1]
    IN /\ o.pc = "save"
       /\ IF ok
          THEN /\ ingests[file.bytes] < MaxIngest
               /\ saveFile(file, FALSE)
               /\ ingests' = [ingests EXCEPT ![file.bytes] = @ + 1]
               /\ upload' = processFiles_loop(upload, b, o.files, o.i + 1,
                                              o.i + 1)
          ELSE /\ upload' = [upload EXCEPT !.batch[b].pc = "idle"]
               /\ UNCHANGED <<items, blobs, created, nextId, ingests>>
       /\ UNCHANGED <<now, comicMetadata, dbComics, dbPages, task, reader,
                      reuses>>
       /\ UNCHANGED <<call, pending, blobHist, pageVars, listVars, pages,
                      loading, db, mgrVars, sessVars>>

\* cancel(): isCancelled is set; the batches being processed are marked.
cancel ==
    /\ upload' = [isCancelled |-> TRUE,
                  batch |-> [b \in Batches |->
                      IF upload.batch[b].pc = "idle" THEN upload.batch[b]
                      ELSE [upload.batch[b] EXCEPT !.cancelled = TRUE]]]
    /\ UNCHANGED <<libVars, call, pending, blobHist, pageVars, listVars, pages,
                   loading, db, mgrVars, sessVars>>

InitUpload == Init

NextUpload ==
    \/ \E b \in Batches, fileList \in FileLists : processFileList(b, fileList)
    \/ \E b \in Batches, fileList \in FileLists : processDrop(b, fileList)
    \/ \E b \in Batches, ok \in BOOLEAN : processDrop_scanned(b, ok)
    \/ \E b \in Batches, ok \in BOOLEAN : processFiles_saved(b, ok)
    \/ cancel

SpecUpload == InitUpload /\ [][NextUpload]_casVars

(***************************************************************************)
(* Properties.                                                             *)
(***************************************************************************)
Referencing(h) == {id \in DOMAIN items : items[id].contentHash = h}
RefCountOf(bl, h) == IF h \in DOMAIN bl THEN bl[h].refCount ELSE 0
NoDeletion(h) == \A id \in DOMAIN created : created[id] = h => id \in DOMAIN items

\* C1: in every reachable state and for every hash, the Blob record's
\* refCount equals the number of Items whose contentHash is that hash, is
\* never negative, and a hash no Item references has no Blob record.
C1_RefcountConservation ==
    \A h \in Hashes :
        /\ RefCount(h) = Cardinality(Referencing(h))
        /\ RefCount(h) >= 0
        /\ Referencing(h) = {} => h \notin DOMAIN blobs

C4_DuplicateHitChangesNothing ==
    [][\A t \in Tasks :
          (task[t].existing # NoId /\ task'[t] # task[t]) =>
              /\ task[t].pc \notin {"open", "dupLegacy"}
              /\ UNCHANGED <<items, blobs, comicMetadata, dbComics, dbPages>>
      ]_casVars

\* C5: two uploads are the same library entry only if their bytes are
\* identical: a saveComic(file) that returns an id has not answered with, nor
\* overwritten, a stored entry of other bytes, and the entry of the id it
\* returns holds the bytes of the upload.
C5_DedupKeyIsContent ==
    [][\A t \in Tasks :
          (/\ call[t].op = "saveComic"
           /\ call[t].pc \in {"touch", "put"}
           /\ call'[t].pc = "idle") =>
              /\ call[t].id \in DOMAIN items =>
                    items[call[t].id].fileBuffer = call[t].file.bytes
              /\ call[t].id \in DOMAIN items'
              /\ items'[call[t].id].fileBuffer = call[t].file.bytes
      ]_casVars

\* C6: a deleteComic(id) of a stored Item leaves no Item, no Metadata record
\* and no Page Cache entry of that id, and the refCount of the Item's Blob one
\* lower than before (no Blob record when that is 0).
C6_DeletionCascade ==
    [][\A id \in ItemIds :
          (id \in DOMAIN items /\ deleteComic(id)) =>
              /\ id \notin DOMAIN items'
              /\ id \notin DOMAIN comicMetadata'
              /\ id \notin DOMAIN dbComics'
              /\ \A key \in DOMAIN dbPages' : key[1] # id
              /\ RefCountOf(blobs', items[id].contentHash)
                    = RefCountOf(blobs, items[id].contentHash) - 1
      ]_casVars

\* C7: in every reachable state a Metadata record or a Page Cache entry of a
\* comic id exists only if an Item with that id exists.
C7_OwnedByItem ==
    /\ DOMAIN comicMetadata \subseteq DOMAIN items
    /\ DOMAIN dbComics \subseteq DOMAIN items
    /\ \A key \in DOMAIN dbPages : key[1] \in DOMAIN items

Quiet(c) == \A cl \in Clients : pending[cl].kind = "idle" \/ pending[cl].bytes # c

\* C8: concurrent puts of one content lose no update: as long as no release
\* of the content has been issued, its refCount is the refCount n the store
\* held at the start plus the number k of puts that have finished.
C8_NoLostPut ==
    \A c \in Contents :
        (blobHist[c].releases = 0 /\ PendingOn("release", c) = {}) =>
            RefCount(hash(c)) = blobHist[c].base + blobHist[c].puts

\* Two puts of a content the store held with refCount 1 were in flight at the
\* same time and both have finished.
C8_Witness ==
    \E c \in Contents :
        /\ blobHist[c].base = 1
        /\ blobHist[c].conc = 2
        /\ blobHist[c].puts = 2
        /\ blobHist[c].releases = 0
        /\ Quiet(c)
        /\ RefCount(hash(c)) = 3

\* C9: when a release that finds refCount 1 and a put of the same content
\* were in flight at the same time and both have finished, the Blob record
\* exists with refCount 1 and its data is retrievable.
C9_ReleaseToZeroVsPut ==
    \A c \in Contents :
        (/\ blobHist[c].raced
         /\ blobHist[c].base = 1
         /\ blobHist[c].puts = 1
         /\ blobHist[c].releases = 1
         /\ Quiet(c)) =>
            /\ hash(c) \in DOMAIN blobs
            /\ blobs[hash(c)].refCount = 1
            /\ BlobGet(blobs, hash(c)) = {c}

\* The release of the only reference and a put of the same content
\* overlapped and both have finished.
C9_Witness ==
    \E c \in Contents :
        /\ blobHist[c].raced
        /\ blobHist[c].base = 1
        /\ blobHist[c].puts = 1
        /\ blobHist[c].releases = 1
        /\ Quiet(c)
        /\ RefCount(hash(c)) = 1

Writes(record) ==
    {record, normalizeRecord(record)} \cup
    {touch(record, cur, tot) : cur \in {Undefined} \cup 0..MaxContent,
                               tot \in {Undefined} \cup 0..MaxContent}

\* C10: read-modify-write of a stored record is atomic: every write to a
\* record that stays stored is a progress update, or the upgrade of a reading
\* call, applied to the record as it is stored when the write happens, so that
\* no write puts back the currentPage or lastAccessed of before a completed
\* update.
C10_AtomicReadModifyWrite ==
    [][\A id \in DOMAIN items \cap DOMAIN items' :
          items'[id] \in Writes(items[id])
      ]_casVars

(***************************************************************************)
(* Error handling of handleFile.                                           *)
(***************************************************************************)
IngestFailures == {UnsupportedFormat, ArchiveOpenFailure, EmptyArchive}
Stores == <<items, blobs, comicMetadata, dbComics, dbPages>>
\* The positions of a handleFile call a format, open or empty-archive failure
\* is reported from.
BeforeWrite == {"idle", "dupMeta", "dupLegacy", "open"}

\* C11: a handleFile call that ends with the unsupported-format, the
\* open-failure or the empty-archive error has created or modified no record
\* of the Item, Blob, Metadata and page stores: the step that reports the
\* error changes none of them, and neither did any earlier step of the call.
C11_FailedIngestWritesNothing ==
    [][\A t \in Tasks :
         /\ (/\ task'[t] # task[t]
             /\ task'[t].pc = "idle"
             /\ task'[t].error \in IngestFailures)
            => (task[t].pc \in BeforeWrite /\ UNCHANGED Stores)
         /\ (/\ task'[t] # task[t]
             /\ task[t].pc \in BeforeWrite
             /\ task'[t].pc \in BeforeWrite)
            => UNCHANGED Stores]_casVars

\* An empty archive was reported while the library holds an Item.
C11_Witness ==
    \E t \in Tasks : /\ task[t].pc = "idle"
                      /\ task[t].error = EmptyArchive
                      /\ DOMAIN items # {}
                      /\ DOMAIN blobs # {}

\* C12: a handleFile call that opens an archive without images ends with the
\* EmptyArchive error, one that cannot open the container ends with the
\* ArchiveOpenFailure error, and the two errors differ.
C12_EmptyArchiveReported ==
    [][\A t \in Tasks :
         (task[t].pc \in {"open", "dupLegacy"} /\ task'[t] # task[t]) =>
            /\ EmptyArchive # ArchiveOpenFailure
            /\ ~Openable(task[t].file) =>
                   task'[t] = Failed(ArchiveOpenFailure)
            /\ (Openable(task[t].file) /\ PageCount(task[t].file) = 0) =>
                   task'[t] = Failed(EmptyArchive)]_casVars

\* C13: whether or not the thumbnail could be made, the call goes on to
\* saveFile without an error, and the Item saveFile persists carries the
\* thumbnail exactly when one was made and references a stored Blob.
C13_ThumbnailIsBestEffort ==
    [][\A t \in Tasks :
         /\ (task[t].pc = "thumb" /\ task'[t] # task[t]) =>
               (task'[t].pc = "save" /\ task'[t].error = NoError)
         /\ (task[t].pc = "save" /\ task'[t].pc = "saveMeta") =>
               LET id == task'[t].fsItem IN
               /\ id \notin DOMAIN items
               /\ id \in DOMAIN items'
               /\ items'[id].thumbnail = task[t].thumbnail
               /\ items'[id].contentHash = hash(task[t].file.bytes)
               /\ items'[id].contentHash \in DOMAIN blobs']_casVars

\* The thumbnail failed and the Item is stored, with its Blob and without a
\* thumbnail.
C13_Witness ==
    \E t \in Tasks :
        /\ task[t].pc = "saveMeta"
        /\ ~task[t].thumbnail
        /\ task[t].fsItem \in DOMAIN items
        /\ ~items[task[t].fsItem].thumbnail
        /\ items[task[t].fsItem].contentHash \in DOMAIN blobs

(***************************************************************************)
(* Metadata.                                                               *)
(***************************************************************************)
\* C18: the Metadata record of an Item is created by the step that opens the
\* Item in the reader, never earlier: a step after which an Item has a
\* Metadata record it did not have before leaves the reader open on that
\* Item.
C18_MetadataCreatedOnOpen ==
    [][\A id \in ItemIds :
         (id \notin DOMAIN comicMetadata /\ id \in DOMAIN comicMetadata') =>
            (reader'.open /\ reader'.id = id)]_casVars

\* The progress a record carries is a page of the comic.
InRange(record) ==
    (record.currentPage # Undefined \/ record.totalPages # Undefined) =>
        (0 <= record.currentPage /\ record.currentPage < record.totalPages)

\* C17: every stored record that carries progress (a record of the comic
\* store, of the metadata store or of the reader's comics store) has
\* 0 <= currentPage < totalPages.
C17_ProgressInRange ==
    /\ \A id \in DOMAIN items : InRange(items[id])
    /\ \A id \in DOMAIN comicMetadata : InRange(comicMetadata[id])
    /\ \A id \in DOMAIN dbComics : InRange(dbComics[id])

(***************************************************************************)
(* The reader: pages and progress.                                         *)
(***************************************************************************)
\* C16: a page fetch that returns the bytes of page i leaves the Metadata of
\* the comic with currentPage = i, and a reopen from the home page starts on
\* the page the reader showed last.
C16_ReadSetsProgress ==
    [][/\ onExtractPage =>
            /\ reader.id \in DOMAIN comicMetadata'
            /\ comicMetadata'[reader.id].currentPage = reader.currentPage
       /\ \A id \in ItemIds :
            (openRecentComic(id) /\ reader' # reader /\ id \in DOMAIN dbComics)
               => reader'.currentPage = dbComics[id].currentPage]_casVars

\* C14: no page of the comic is extracted from the archive more than once,
\* whatever the number of fetches of it and also when they overlap.
C14_OneExtractionPerPage ==
    \A i \in PageIndexes : extractions[i] <= 1

Shown(list) == slice(list.files, MaxRecent)

RECURSIVE Tokens(_)
Tokens(name) ==
    IF name = <<>> THEN <<>>
    ELSE IF IsDigit(Head(name))
    THEN LET run == DigitRun(name) IN
         <<<<48, NumberOf(run)>>>> \o Tokens(SubSeq(name, Len(run) + 1, Len(name)))
    ELSE <<<<collate(Head(name)), 0>>>> \o Tokens(Tail(name))

RECURSIVE TokensBefore(_, _)
TokensBefore(x, y) ==
    IF y = <<>> THEN FALSE
    ELSE IF x = <<>> THEN TRUE
    ELSE IF Head(x) = Head(y) THEN TokensBefore(Tail(x), Tail(y))
    ELSE \/ Head(x)[1] < Head(y)[1]
         \/ Head(x)[1] = Head(y)[1] /\ Head(x)[2] < Head(y)[2]

NaturalBefore(a, b) == TokensBefore(Tokens(a), Tokens(b))

\* C20: whichever path listed the archive, its entries are in natural order:
\* an entry comes before every entry that follows it in the order in which
\* runs of digits compare as numbers.
C20_NaturalOrder ==
    \A i, j \in DOMAIN listing.entries :
        i < j => NaturalBefore(listing.entries[i].filename,
                               listing.entries[j].filename)

\* The extension of a path, whatever its case, is one of jpg, jpeg, png, gif,
\* bmp and webp.
HasImageExtension(f) ==
    \E e \in imageExtensions :
        /\ Len(e) <= Len(f)
        /\ SubSeq(toLowerCase(f), Len(f) - Len(e) + 1, Len(f)) = e

\* C21: whichever path listed the archive, the descriptors are exactly the
\* entries whose extension is jpg, jpeg, png, gif, bmp or webp, at any depth,
\* one descriptor per such entry and none for another entry, and they carry
\* the indexes 0..N-1 in the order returned.
C21_ExactlyTheImages ==
    listing.path # "" =>
        /\ {e.filename : e \in Range(listing.entries)}
               = {f \in Range(archive) : HasImageExtension(f)}
        /\ Len(listing.entries)
               = Cardinality({f \in Range(archive) : HasImageExtension(f)})
        /\ \A i \in DOMAIN listing.entries : listing.entries[i].index = i - 1

\* C27: for a ZIP session of EnhancedZipManager, the index getPage sends to
\* the ZIP worker denotes, in the worker's own list, the entry whose filename
\* is session.pages[i].filename, so getPage(i) returns the bytes of that entry.
C27_IndexDenotesSameEntry ==
    (listing.path = "EnhancedZipManager" /\ listing.worker # <<>>) =>
        \A i \in DOMAIN listing.entries :
            handleExtractPage(listing.entries[i].index)
                = listing.entries[i].filename

\* C22: a loadPage call on a descriptor that has its blob starts no
\* extraction and leaves every descriptor, with its bytes and MIME type, and
\* the number of extractions as they were: it returns at once.
C22_LoadPageIdempotent ==
    [][\A c \in Fetchers :
          (/\ loading[c].pc = "idle"
           /\ loading'[c] # loading[c]
           /\ pages[loading'[c].index + 1].blob # <<>>)
          => /\ loading'[c].pc = "idle"
             /\ pages' = pages
             /\ extractions' = extractions]_casVars

\* A page was extracted once, with the type of its extension, and a later
\* loadPage call on it returned at once.
C22_Witness ==
    \E c \in Fetchers :
        /\ loading[c].outcome = "returned"
        /\ pages[loading[c].index + 1].blob
               = <<pages[loading[c].index + 1].filename>>
        /\ pages[loading[c].index + 1].type = "image/png"
        /\ extractions[loading[c].index] = 1

\* The calls of getPage that wait for their extraction.
Extracting(c) == op[c].pc \in {"extract", "rarExtract"}

\* C24: a getPage whose extraction fails leaves the page cache, the session
\* with its recorded current page and its pages, and the archive held by the
\* worker or by libarchive as they were, so that another page, or the same
\* page again, can still be loaded.
C24_FailedExtractionScoped ==
    [][\A c \in Fetchers :
          (Extracting(c) /\ op'[c].outcome = "failed")
          => /\ pageCache' = pageCache
             /\ currentSession' = currentSession
             /\ libarchive' = libarchive
             /\ worker'.alive = worker.alive
             /\ worker'.currentArchiveData = worker.currentArchiveData
             /\ worker'.currentEntries = worker.currentEntries]_casVars

\* The extraction of a page failed for one caller and the page was loaded
\* for another: the session is open and the page is in its cache.
C24_Witness ==
    \E c, d \in Fetchers :
        /\ op[c].outcome = "failed"
        /\ op[d].outcome = "resolved"
        /\ op[d].index = op[c].index
        /\ currentSession.open
        /\ cacheKey(currentSession, op[c].index) \in DOMAIN pageCache

\* C25: a getPage that was called on one comic and ends when another comic
\* is the session neither inserts into the page cache nor changes the
\* recorded current page, and every page it caches holds the bytes of the
\* entry of its own archive.
C25_NoCrossTalk ==
    [][\A c \in Fetchers :
          (Extracting(c) /\ op'[c].pc = "idle")
          => /\ \A k \in DOMAIN pageCache' :
                    pageCache'[k].blob = EntryBytes(pageCache'[k].pageInfo[1],
                                                    pageCache'[k].pageInfo[2])
             /\ (currentSession.open
                    /\ currentSession.file # op[c].pageInfo[1])
                 => /\ pageCache' = pageCache
                    /\ currentSession' = currentSession]_casVars

\* C29: while a session is open its current page index is one of its pages.
C29_IndexInRange ==
    currentSession.open =>
        /\ 0 <= currentSession.currentPageIndex
        /\ currentSession.currentPageIndex < currentSession.pages

\* The step of caller c belongs to an openComic call.
OpenComicStep(c) ==
    \/ \E file \in ComicFiles : openComic_begin(c, file)
    \/ op[c].pc \in {"list", "rarLoad", "rarOpen", "rarList"}

\* C28: an openComic that fails has changed nothing of the session state:
\* the comic that was open is still the session, with its page cache, its
\* worker and its libarchive instance, so getPage on it still works.
C28_FailedOpenKeepsSession ==
    [][\A c \in Fetchers :
          (/\ currentSession.open
           /\ OpenComicStep(c)
           /\ op'[c].pc = "idle"
           /\ op'[c].outcome = "rejected")
          => /\ currentSession' = currentSession
             /\ pageCache' = pageCache
             /\ worker' = worker
             /\ libarchive' = libarchive]_casVars

\* C26: every listing or extraction request sent to the worker is
\* eventually answered: the promise of the call that waits for it settles,
\* also when the manager is disposed or another comic opened meanwhile.
C26_RequestsSettle ==
    \A c \in Fetchers :
        (op[c].pc \in {"list", "extract"}) ~> (op[c].pc = "idle")

(***************************************************************************)
(* saveComic of a file that is stored already.                             *)
(***************************************************************************)
\* The progress a record carries: a record of the earlier version, without
\* the fields, stands at page 0 of 0.
Progress(record) ==
    <<normalizeRecord(record).currentPage, normalizeRecord(record).totalPages>>

\* A step of the saveComic call t.
SaveComicStep(t) ==
    /\ call'[t] # call[t]
    /\ "saveComic" \in {call[t].op, call'[t].op}

\* C30: saveComic is idempotent per comic id: no step of a saveComic call for
\* an id that has a record changes the stored bytes, the currentPage or the
\* totalPages of that record, or removes it; only lastAccessed is bumped.
C30_SaveComicIdempotent ==
    [][\A t \in Tasks :
          (SaveComicStep(t) /\ call[t].pc # "idle" /\ call[t].id \in DOMAIN items) =>
             /\ call[t].id \in DOMAIN items'
             /\ items'[call[t].id].fileBuffer = items[call[t].id].fileBuffer
             /\ Progress(items'[call[t].id]) = Progress(items[call[t].id])
      ]_casVars

(***************************************************************************)
(* Upgrade of the records of an earlier version.                           *)
(***************************************************************************)
\* A step of the init call t.
InitStep(t) ==
    /\ call'[t] # call[t]
    /\ "init" \in {call[t].op, call'[t].op}

\* C23: a record of an earlier version is upgraded when it is first read,
\* never by a pass over all records: no step of init, the opening of the
\* store, writes a comic record.
C23_InitRewritesNoRecord ==
    [][\A t \in DOMAIN call : InitStep(t) => items' = items]_casVars

\* C35: however many callers invoke init() or a storage operation before the
\* database is open, the database is opened once and the migration pass runs
\* at most once: no init call takes the opened database and starts the pass
\* when this.db is set already.
C35_OpenedOnce ==
    [][\A t \in DOMAIN call :
          (call[t].pc = "open" /\ call'[t].pc = "cursor") => ~db
      ]_casVars

\* C36: init() always terminates: whatever the comic store holds, records
\* that need migration and records whose migration fails included, every
\* init call that started returns.
C36_InitTerminates ==
    \A t \in Callers :
        (call[t].op = "init" /\ call[t].pc # "idle") ~> (call[t].pc = "idle")

(***************************************************************************)
(* Progress and filter saves for an id without a record.                   *)
(***************************************************************************)
\* A step in which the call t returns from updateProgress (and so from
\* updateLastAccessed) or from saveFilterSetting.
UpdateReturns(t) ==
    /\ call'[t] # call[t]
    /\ call'[t].pc = "idle"
    /\ call'[t].op \in {"updateProgress", "saveFilterSetting"}

\* C31: updateProgress, updateLastAccessed and saveFilterSetting for an id
\* that has no stored record create no record and change none: every such
\* call that returns leaves the record store as it is when the id is not
\* stored, so a save after deleteComic(id) does not bring the comic back.
C31_NoRecordNoWrite ==
    [][\A t \in Tasks :
          (UpdateReturns(t) /\ call'[t].id \notin DOMAIN items) =>
             items' = items
      ]_casVars

\* A save of the filter has returned "Not found" for a comic that was stored
\* and deleted, and the library does not hold the comic.
C31_Witness ==
    \E t \in Tasks :
        /\ call[t].pc = "idle"
        /\ call[t].op \in {"updateProgress", "saveFilterSetting"}
        /\ call[t].record = NoRecord
        /\ call[t].id \in DOMAIN created
        /\ call[t].id \notin DOMAIN items

(***************************************************************************)
(* The archive workers.                                                    *)
(***************************************************************************)
\* A LIST_ARCHIVE is posted to the worker or being handled by it.
ListingUnderWay == {m \in Range(worker.inbox) \cup worker.running :
                       m.type = "LIST_ARCHIVE"}

\* C32: the worker's entry list describes the archive it has loaded: while
\* no LIST_ARCHIVE is under way, after one that failed too, currentEntries
\* are the entries of the file currentArchiveData was read from, or both are
\* empty.
C32_EntriesOfLoadedArchive ==
    ListingUnderWay = {} => worker.currentEntries = worker.currentArchiveData

\* The messages the worker has received, or is about to, and not answered.
Received(w) == Range(w.inbox) \cup w.running
IdsReceived(w) == {m.id : m \in Received(w)}

\* A step of the worker: it lives, no message is posted to it and none of
\* its responses is taken.
WorkerStep ==
    /\ worker.alive /\ worker'.alive
    /\ worker' # worker
    /\ IdsReceived(worker') \subseteq IdsReceived(worker)
    /\ Len(worker'.outbox) >= Len(worker.outbox)

\* The responses a step posts.
Posted ==
    SubSeq(worker'.outbox, Len(worker.outbox) + 1, Len(worker'.outbox))

\* The response r answers the message m as the listeners do.
Answers(r, m) ==
    /\ r.id = m.id
    /\ r.type \in {"ARCHIVE_LISTED", "PAGE_EXTRACTED", "ERROR"}
    /\ r.type = "ARCHIVE_LISTED" => m.type = "LIST_ARCHIVE"
    /\ r.type = "PAGE_EXTRACTED" =>
          /\ m.type = "EXTRACT_PAGE"
          /\ m \in worker.running
    /\ m.type \notin {"LIST_ARCHIVE", "EXTRACT_PAGE"} => r.type = "ERROR"

OutstandingRequests == {i \in DOMAIN requests : requests[i].calls = 0}

\* C34: every request promise is settled at most once and only by the
\* response that carries its id; the ids of the requests sent are pairwise
\* distinct; a settled request is no longer in pendingRequests; and a
\* response whose id is not pending changes no pending request.
C34_RequestsSettledOnceById ==
    /\ [](/\ \A i \in DOMAIN requests :
                /\ requests[i].calls <= 1
                /\ requests[i].calls = 1 =>
                      /\ requests[i].by = requests[i].id
                      /\ requests[i].id \notin pendingRequests
          /\ \A i, j \in DOMAIN requests :
                requests[i].id = requests[j].id => i = j
          /\ pendingRequests \subseteq {requests[i].id : i \in OutstandingRequests})
    /\ [][(/\ worker.outbox # <<>>
           /\ worker' = [worker EXCEPT !.outbox = Tail(@)]
           /\ Head(worker.outbox).id \notin pendingRequests) =>
              /\ pendingRequests' = pendingRequests
              /\ requests' = requests
         ]_casVars

\* A response has settled its request, and a response of a request that
\* dispose forgot has been dropped while another request is pending.
C34_Witness ==
    /\ \E i \in DOMAIN requests : requests[i].calls = 1
    /\ \E i \in DOMAIN requests :
          /\ requests[i].calls = 0
          /\ requests[i].id \notin pendingRequests
          /\ requests[i].id \notin IdsReceived(worker)
          /\ \A k \in DOMAIN worker.outbox : worker.outbox[k].id # requests[i].id
    /\ pendingRequests # {}


\* A step of batch b starts the save of a file.
StartsSave(b) ==
    /\ upload'.batch[b].pc = "save"
    /\ \/ upload.batch[b].pc # "save"
       \/ upload'.batch[b].i # upload.batch[b].i

\* A step of batch b reports progress.
ReportsProgress(b) ==
    /\ upload'.batch[b].current # upload.batch[b].current
    /\ upload'.batch[b].current > 0

\* C37: in a bulk upload the files are saved one at a time in list order,
\* progress is reported as current = 1, 2, ..., each only in the step that
\* completes that file's save, and once cancel() was called while the batch
\* is being processed the batch starts no save and reports no progress.
C37_SavesInOrderUntilCancel ==
    [][\A b \in Batches :
          LET o == upload.batch[b]
              n == upload'.batch[b]
          IN /\ StartsSave(b) =>
                  /\ n.i = IF o.pc = "save" THEN o.i + 1 ELSE 0
                  /\ ~(o.pc # "idle" /\ o.cancelled)
             /\ ReportsProgress(b) =>
                  /\ o.pc = "save"
                  /\ n.current = o.i + 1
                  /\ n.current = o.current + 1
                  /\ nextId' = nextId + 1
                  /\ items'[ItemId(nextId)].name = o.files[o.i + 1].name
                  /\ ~o.cancelled
      ]_casVars

=============================================================================
